---- MODULE Spec2Model ----
(***************************************************************************)
(* Model of the cascade animation of my_tic_tac_toe                        *)
(* (src/src/my_tic_tac_toe/cascade/{particle,animation,keyboard}.py).      *)
(*                                                                         *)
(* Rows and velocities are Python floats in the source.  The model keeps   *)
(* them as integers counted in 1/Den of a row; Den is a power of two, so   *)
(* every value of the model and every sum the model forms is a binary      *)
(* fraction that float arithmetic represents exactly.                      *)
(***************************************************************************)
EXTENDS Integers, Sequences, FiniteSets, TLC

VARIABLES
    width,          \* CascadeAnimation.width
    height,         \* CascadeAnimation.height
    particles,      \* CascadeAnimation.particles, in creation order
    floor,          \* CascadeAnimation.floor, a function on 0..width-1
    frame_count,    \* CascadeAnimation._frame_count
    still_moving,   \* value returned by the latest update()
    calls,          \* number of update() calls made so far
    created,        \* the particles as __init__ left them
    floor_log,      \* self.floor as each particle of the latest update() met it
    pc,             \* position of run()
    stdin,          \* characters typed and not yet read from the terminal
    inbuf,          \* characters sys.stdin has read ahead and not yet returned
    key,            \* the local `key` of run()
    term,           \* the terminal's attributes (process-wide)
    kb,             \* the NonBlockingInput object of run()
    term0,          \* the terminal's attributes when run() was called
    cursor,         \* what the terminal does with the cursor
    tally,          \* how often run() wrote or called what
    exc,            \* an exception is propagating out of run()
    tty,            \* what the terminal received so far, in order
    rendered,       \* what render_frame() read, if called since update() ran
    caller,         \* where RichRenderer.render, the caller of run(), is
    arg_scene,      \* the board_lines handed to __init__ (glyph positions)
    arg_frozen,     \* the frozen_cells handed to __init__
    grid,           \* the string handed to grid_to_index
    index,          \* what grid_to_index gave: the index or the exception
    probe,          \* the arguments handed to is_in_frozen_area, and the game
    inside,         \* what is_in_frozen_area gave
    renderer,       \* the fields of the RichRenderer
    out,            \* what the renderer wrote to the screen so far, in order
    rcalls,         \* the calls made on the renderer so far, in order
    player,         \* a get_move call of the RichPlayer: argument, place, result
    shadow          \* a second animation: the same one without its frozen particles

vars == <<width, height, particles, floor, frame_count, still_moving, calls,
          created, floor_log, pc, stdin, inbuf, key, term, term0, kb, cursor,
          tally, exc, tty, rendered, caller, arg_scene, arg_frozen, grid,
          index, probe, inside, renderer, out, rcalls, player, shadow>>

(* the state of the game around the animation *)
pureVars == <<grid, index, probe, inside>>
rendererVars == <<renderer, out, rcalls>>
gameVars == <<pureVars, rendererVars, player, shadow>>
animVars == <<width, height, particles, floor, frame_count, still_moving,
              calls, created, floor_log, arg_scene, arg_frozen>>
runVars == <<pc, stdin, inbuf, key, term, term0, kb, cursor, tally, exc, tty,
             caller, gameVars>>
(* all that a CascadeAnimation and its run() read and write *)
cascadeVars == <<animVars, pc, stdin, inbuf, key, term, term0, kb, cursor,
                 tally, exc, tty, rendered, caller, shadow>>
outVars == <<tty, rendered, caller>>

----------------------------------------------------------------------------
(* Bounds of the model *)

MaxHeight == 2
MaxParticles == 2
MaxKeys == 2

Den == 2 * 2 * 2

NoStyle == "None"

(* random.uniform(0.08, 0.4), in hundredths of a row per frame *)
VelLoPct == 8
VelHiPct == 40

Velocities == { v \in 1..Den : 100 * v >= VelLoPct * Den /\ 100 * v <= VelHiPct * Den }
Spins == {-1, 1}

(* particle.py: cell geometry *)
CELL_WIDTH == 17
CELL_HEIGHT == 7
ROW_LABEL_WIDTH == 3

(* animation.py: class constants *)
MIN_WIDTH == 60
MIN_HEIGHT == 30

(* animation.py 14-16: the control sequences run() writes *)
CURSOR_HOME == "ESC[H"
HIDE_CURSOR == "ESC[?25l"
SHOW_CURSOR == "ESC[?25h"

(* renderer.py 18-19: the clearing sequences RichRenderer writes *)
CLEAR_SCREEN == "ESC[2J"
CLEAR_TO_END == "ESC[J"

(* the other things a terminal receives during a run: a printed frame,     *)
(* and the attribute changes of tty.setcbreak and of _restore              *)
FRAME == "frame"
CBREAK == "setcbreak"
RESTORE == "tcsetattr"

----------------------------------------------------------------------------
(* particle.py *)

cell_to_screen_bounds(cell_index) ==
    LET row == cell_index \div 3
        col == cell_index % 3
        x1 == ROW_LABEL_WIDTH + 1 + col * (CELL_WIDTH + 1)
        y1 == 2 + row * (CELL_HEIGHT + 1)
    IN  [x1 |-> x1, y1 |-> y1, x2 |-> x1 + CELL_WIDTH, y2 |-> y1 + CELL_HEIGHT]

(* the test that takes the far edges of a cell in *)
is_in_frozen_area_closed(x, y, frozen_cells) ==
    \E cell_index \in frozen_cells :
        LET b == cell_to_screen_bounds(cell_index)
        IN  b.x1 <= x /\ x <= b.x2 /\ b.y1 <= y /\ y <= b.y2

is_in_frozen_area(x, y, frozen_cells) ==
    \E cell_index \in frozen_cells :
        LET b == cell_to_screen_bounds(cell_index)
        IN  b.x1 <= x /\ x < b.x2 /\ b.y1 <= y /\ y < b.y2

(* Particle.create: velocity and spin are the two random draws *)
ParticleCreate(char, x, y, style, frozen, drawVel, drawSpin) ==
    [char |-> char, x |-> x, y |-> y * Den,
     velocity |-> IF frozen THEN 0 ELSE drawVel,
     style |-> style, frozen |-> frozen,
     spin |-> IF frozen THEN 0 ELSE drawSpin]

----------------------------------------------------------------------------
(* The scene handed to CascadeAnimation.__init__: board_lines is a set of  *)
(* glyph positions <<x, y>> (every other position is blank), with the      *)
(* glyph and the style of board_styles given by the position.              *)

BoardChar(pos) == IF pos[1] % 2 = 0 THEN "X" ELSE "O"

BoardStyle(pos) ==
    IF is_in_frozen_area(pos[1], pos[2], 0..8)
    THEN (IF pos[1] % 2 = 0 THEN "bold red reverse" ELSE "bold blue reverse")
    ELSE (IF pos[2] % 2 = 0 THEN NoStyle ELSE "bold yellow")

(* the scan that runs down the columns first *)
ScanBeforeColumnMajor(a, b) == a[1] < b[1] \/ (a[1] = b[1] /\ a[2] < b[2])

(* row-major scan order of enumerate(board_lines) / enumerate(line) *)
ScanBefore(a, b) == a[2] < b[2] \/ (a[2] = b[2] /\ a[1] < b[1])

RECURSIVE ScanOrder(_)
ScanOrder(S) ==
    IF S = {} THEN << >>
    ELSE LET first == CHOOSE a \in S : \A b \in S \ {a} : ScanBefore(a, b)
         IN  <<first>> \o ScanOrder(S \ {first})

(* the lines of the scene as a function from positions to characters:     *)
(* rows 0 to the last row with a glyph, each running one column past the   *)
(* scene's last glyph column and ending in a newline, blank between glyphs *)
BoardLines(scene) ==
    LET lastRow == CHOOSE r \in { pos[2] : pos \in scene } :
                       \A pos \in scene : pos[2] <= r
        lastCol == CHOOSE c \in { pos[1] : pos \in scene } :
                       \A pos \in scene : pos[1] <= c
    IN  [pos \in (0..(lastCol + 1)) \X (0..lastRow) |->
            IF pos \in scene THEN BoardChar(pos)
            ELSE IF pos[1] = lastCol + 1 THEN "\n" ELSE " "]

(* board_styles, given for the glyph positions only *)
BoardStyles(scene) == [pos \in scene |-> BoardStyle(pos)]

(* line 96: spaces and newlines make no particle *)
GlyphPositions(board_lines) ==
    { pos \in DOMAIN board_lines : board_lines[pos] # " " /\ board_lines[pos] # "\n" }

(* lines 97-101: the style of a position, None outside board_styles *)
StyleAt(board_styles, pos) ==
    IF pos \in DOMAIN board_styles THEN board_styles[pos] ELSE NoStyle

_init_particles(board_lines, board_styles, frozen_cells, drawVel, drawSpin) ==
    LET order == ScanOrder(GlyphPositions(board_lines))
    IN  [i \in 1..Len(order) |->
            LET pos == order[i]
            IN  ParticleCreate(board_lines[pos], pos[1], pos[2],
                               StyleAt(board_styles, pos),
                               is_in_frozen_area(pos[1], pos[2], frozen_cells),
                               drawVel[pos], drawSpin[pos])]

InitFloor(w, h) == [c \in 0..(w - 1) |-> h]

----------------------------------------------------------------------------
(* animation.py: CascadeAnimation.update *)

(* int(p.y): truncation toward zero *)
Trunc(y) == IF y >= 0 THEN y \div Den ELSE -((-y) \div Den)

InFloor(fl, x) == x \in DOMAIN fl

(* the skip test with the frozen flag read the wrong way round *)
SkippedFrozenInverted(p) == (~p.frozen) /\ p.velocity = 0

(* line 115: frozen particles and landed particles are skipped *)
Skipped(p) == p.frozen \/ p.velocity = 0

(* the floor of a column outside the array put one row below the display *)
FloorYBelow(p, fl, h) == IF InFloor(fl, p.x) THEN fl[p.x] ELSE h + 1

(* line 120 *)
FloorY(p, fl, h) == IF InFloor(fl, p.x) THEN fl[p.x] ELSE h

(* the floor test with > for >= *)
ReachedFloorStrict(p, floor_y) == p.y + p.velocity > (floor_y - 1) * Den

(* lines 123-124: new_y >= floor_y - 1 *)
ReachedFloor(p, floor_y) == p.y + p.velocity >= (floor_y - 1) * Den

(* the headroom test with >= for > *)
CanSlideLoose(p, fl) ==
    LET side_x == p.x + p.spin
    IN  InFloor(fl, side_x) /\ fl[side_x] >= Trunc(p.y) + 1

(* the headroom test that takes a column outside the array for an empty one *)
CanSlideOffEdge(p, fl) ==
    LET side_x == p.x + p.spin
    IN  IF InFloor(fl, side_x) THEN fl[side_x] > Trunc(p.y) + 1 ELSE TRUE

(* lines 126-132: the side column exists and has room below the current row *)
CanSlide(p, fl) ==
    LET side_x == p.x + p.spin
    IN  InFloor(fl, side_x) /\ fl[side_x] > Trunc(p.y) + 1

(* the slide that turns the particle round *)
SlideTurns(p) == [p EXCEPT !.x = p.x + p.spin, !.y = p.y + p.velocity, !.spin = -p.spin]

(* lines 134-135 *)
Slide(p) == [p EXCEPT !.x = p.x + p.spin, !.y = p.y + p.velocity]

(* the landing on the floor row itself, not on the row above it *)
LandOnFloorRow(p, floor_y) == [p EXCEPT !.y = floor_y * Den, !.velocity = 0]

(* lines 140 and 143 *)
Land(p, floor_y) == [p EXCEPT !.y = (floor_y - 1) * Den, !.velocity = 0]

(* the landing that lowers the floor of every column *)
LandFloorAll(p, fl) == [c \in DOMAIN fl |-> fl[c] - 1]

(* lines 141-142 *)
LandFloor(p, fl) == IF InFloor(fl, p.x) THEN [fl EXCEPT ![p.x] = @ - 1] ELSE fl

(* the fall that computes the new row and does not store it *)
FallNotStored(p) == p

(* line 145 *)
Fall(p) == [p EXCEPT !.y = p.y + p.velocity]

(* the loop body that counts a landing particle as still moving *)
UpdateParticleLandMoving(p, fl, h) ==
    IF Skipped(p) THEN [p |-> p, floor |-> fl, moving |-> FALSE]
    ELSE LET floor_y == FloorY(p, fl, h)
         IN  IF ReachedFloor(p, floor_y)
             THEN IF CanSlide(p, fl)
                  THEN [p |-> Slide(p), floor |-> fl, moving |-> TRUE]
                  ELSE [p |-> Land(p, floor_y), floor |-> LandFloor(p, fl),
                        moving |-> TRUE]
             ELSE [p |-> Fall(p), floor |-> fl, moving |-> TRUE]

(* the loop body that sends a landed particle off again when the column    *)
(* beside it has room                                                      *)
UpdateParticleTopple(p, fl, h) ==
    IF p.frozen THEN [p |-> p, floor |-> fl, moving |-> FALSE]
    ELSE IF p.velocity = 0
    THEN IF CanSlide(p, fl)
         THEN [p |-> [p EXCEPT !.x = p.x + p.spin, !.velocity = 1],
               floor |-> fl, moving |-> TRUE]
         ELSE [p |-> p, floor |-> fl, moving |-> FALSE]
    ELSE LET floor_y == FloorY(p, fl, h)
         IN  IF ReachedFloor(p, floor_y)
             THEN IF CanSlide(p, fl)
                  THEN [p |-> Slide(p), floor |-> fl, moving |-> TRUE]
                  ELSE [p |-> Land(p, floor_y), floor |-> LandFloor(p, fl),
                        moving |-> FALSE]
             ELSE [p |-> Fall(p), floor |-> fl, moving |-> TRUE]

(* the body of the loop for one particle: the particle and the floor it    *)
(* leaves, and whether it set still_moving                                 *)
UpdateParticle(p, fl, h) ==
    IF Skipped(p) THEN [p |-> p, floor |-> fl, moving |-> FALSE]
    ELSE LET floor_y == FloorY(p, fl, h)
         IN  IF ReachedFloor(p, floor_y)
             THEN IF CanSlide(p, fl)
                  THEN [p |-> Slide(p), floor |-> fl, moving |-> TRUE]
                  ELSE [p |-> Land(p, floor_y), floor |-> LandFloor(p, fl),
                        moving |-> FALSE]
             ELSE [p |-> Fall(p), floor |-> fl, moving |-> TRUE]

(* the loop over self.particles, in list order; log collects the floor     *)
(* each particle met                                                       *)
RECURSIVE UpdateLoop(_, _, _, _, _, _)
UpdateLoop(i, ps, fl, moving, log, h) ==
    IF i > Len(ps)
    THEN [particles |-> ps, floor |-> fl, still_moving |-> moving,
          log |-> Append(log, fl)]
    ELSE LET r == UpdateParticle(ps[i], fl, h)
         IN  UpdateLoop(i + 1, [ps EXCEPT ![i] = r.p], r.floor,
                        moving \/ r.moving, Append(log, fl), h)

(* update() with the frozen particles as obstacles: the floor of a column *)
(* is first lowered to the topmost frozen particle that stands in it      *)
updateOntoFrozen(ps, fl, h) ==
    LET rows(c) == { Trunc(ps[i].y) : i \in { k \in DOMAIN ps : ps[k].frozen /\ ps[k].x = c } }
        top(c) == CHOOSE r \in rows(c) : \A q \in rows(c) : r <= q
    IN  UpdateLoop(1, ps,
                   [c \in DOMAIN fl |->
                       IF rows(c) # {} /\ top(c) < fl[c] THEN top(c) ELSE fl[c]],
                   FALSE, << >>, h)

update(ps, fl, h) == UpdateLoop(1, ps, fl, FALSE, << >>, h)

----------------------------------------------------------------------------
(* animation.py: CascadeAnimation.render_frame *)

(* lines 20-28 and 30-38 *)
PULSE_COLORS_RED ==
    <<"grey30", "grey42", "grey54", "grey66", "red", "bright_red", "bold bright_red">>
PULSE_COLORS_BLUE ==
    <<"grey30", "grey42", "grey54", "grey66", "blue", "bright_blue", "bold bright_blue">>

(* lines 165-166: int(((math.sin(n * 0.15) + 1) / 2) * 6) for the frame    *)
(* counts n = 0, 1, ..., as the source's expression evaluates              *)
PulseTable ==
    <<3, 3, 3, 4, 4, 5, 5, 5, 5, 5, 5, 5, 5, 5, 5, 5,
      5, 4, 4, 3, 3, 2, 2, 2, 1, 1, 0, 0, 0, 0, 0, 0,
      0, 0, 0, 0, 0, 0, 1, 1, 2, 2, 3, 3, 3, 4, 4, 5,
      5, 5, 5, 5, 5, 5, 5, 5, 5, 5, 4, 4, 4, 3, 3, 2>>
pulse_index(n) == PulseTable[n + 1]

(* the characters of the style strings of the model *)
Spell(style) ==
    CASE style = "bold red reverse" ->
           <<"b", "o", "l", "d", " ", "r", "e", "d", " ", "r", "e", "v", "e", "r", "s", "e">>
      [] style = "bold blue reverse" ->
           <<"b", "o", "l", "d", " ", "b", "l", "u", "e", " ", "r", "e", "v", "e", "r", "s", "e">>
      [] style = "bold yellow" ->
           <<"b", "o", "l", "d", " ", "y", "e", "l", "l", "o", "w">>
      [] style = "BOLD RED" ->
           <<"B", "O", "L", "D", " ", "R", "E", "D">>
      [] style = "bold BLUE" ->
           <<"b", "o", "l", "d", " ", "B", "L", "U", "E">>
      [] style = "blue on red" ->
           <<"b", "l", "u", "e", " ", "o", "n", " ", "r", "e", "d">>
      [] OTHER -> << >>

UpperLetters ==
    <<"A", "B", "C", "D", "E", "F", "G", "H", "I", "J", "K", "L", "M",
      "N", "O", "P", "Q", "R", "S", "T", "U", "V", "W", "X", "Y", "Z">>
LowerLetters ==
    <<"a", "b", "c", "d", "e", "f", "g", "h", "i", "j", "k", "l", "m",
      "n", "o", "p", "q", "r", "s", "t", "u", "v", "w", "x", "y", "z">>

(* str.lower(), character by character *)
LowerChar(c) ==
    IF \E i \in DOMAIN UpperLetters : UpperLetters[i] = c
    THEN LowerLetters[CHOOSE i \in DOMAIN UpperLetters : UpperLetters[i] = c]
    ELSE c
StrLower(chars) == [i \in 1..Len(chars) |-> LowerChar(chars[i])]

(* `needle in hay` for strings *)
Contains(needle, hay) ==
    \E i \in 1..(Len(hay) - Len(needle) + 1) :
        SubSeq(hay, i, i + Len(needle) - 1) = needle

(* the truth value of a style: None and the empty string are false *)
Truthy(style) == style # NoStyle /\ style # ""

(* the style choice that looks for the colour names in the style as stored *)
StyleShownCaseSensitive(p, n) ==
    IF p.frozen /\ Truthy(p.style)
    THEN IF Contains(<<"r", "e", "d">>, Spell(p.style))
         THEN PULSE_COLORS_RED[pulse_index(n) + 1]
         ELSE IF Contains(<<"b", "l", "u", "e">>, Spell(p.style))
         THEN PULSE_COLORS_BLUE[pulse_index(n) + 1]
         ELSE p.style
    ELSE p.style

(* lines 174-183: the style a particle is drawn with at frame count n *)
StyleShown(p, n) ==
    IF p.frozen /\ Truthy(p.style)
    THEN IF Contains(<<"r", "e", "d">>, StrLower(Spell(p.style)))
         THEN PULSE_COLORS_RED[pulse_index(n) + 1]
         ELSE IF Contains(<<"b", "l", "u", "e">>, StrLower(Spell(p.style)))
         THEN PULSE_COLORS_BLUE[pulse_index(n) + 1]
         ELSE p.style
    ELSE p.style

(* the bounds test that lets the row below the buffer through *)
VisibleLoose(p, w, h) ==
    0 <= Trunc(p.y) /\ Trunc(p.y) <= h /\ 0 <= p.x /\ p.x < w

(* lines 170-171: the particle's cell is inside the buffer *)
Visible(p, w, h) ==
    0 <= Trunc(p.y) /\ Trunc(p.y) < h /\ 0 <= p.x /\ p.x < w

(* lines 157-162: the empty buffers, a blank and no style in every cell *)
BlankScreen(w, h) ==
    [cell \in (0..(w - 1)) \X (0..(h - 1)) |-> [char |-> " ", style |-> NoStyle]]

(* the buffer write that leaves a cell already drawn as it is *)
PutFirstWins(screen, p, n) ==
    LET cell == <<p.x, Trunc(p.y)>>
    IN  IF cell \in DOMAIN screen /\ screen[cell].char # " " THEN screen
        ELSE [c \in DOMAIN screen |->
                 IF c = cell THEN [char |-> p.char, style |-> StyleShown(p, n)]
                 ELSE screen[c]]

(* lines 172-183: screen[y][p.x] and styles[y][p.x] are assigned *)
Put(screen, p, n) ==
    LET cell == <<p.x, Trunc(p.y)>>
    IN  [c \in DOMAIN screen |->
            IF c = cell THEN [char |-> p.char, style |-> StyleShown(p, n)]
            ELSE screen[c]]

(* lines 169-183: the loop over the particles, in list order; the cells    *)
(* assigned are logged in `writes`                                         *)
RECURSIVE PlaceLoop(_, _, _, _, _, _, _)
PlaceLoop(ps, i, screen, writes, w, h, n) ==
    IF i > Len(ps) THEN [screen |-> screen, writes |-> writes]
    ELSE IF Visible(ps[i], w, h)
    THEN PlaceLoop(ps, i + 1, Put(screen, ps[i], n),
                   Append(writes, <<ps[i].x, Trunc(ps[i].y)>>), w, h, n)
    ELSE PlaceLoop(ps, i + 1, screen, writes, w, h, n)

NewLine == [char |-> "\n", style |-> NoStyle]

(* the row end that appends a newline after the last row too *)
RowEndAlways(row_idx, h) == <<NewLine>>

(* lines 191-192: a newline after every row but the last *)
RowEnd(row_idx, h) == IF row_idx < h - 1 THEN <<NewLine>> ELSE << >>

(* lines 186-192: the Text, appended glyph by glyph and row by row *)
RECURSIVE TextRows(_, _, _, _)
TextRows(screen, row_idx, w, h) ==
    IF row_idx >= h THEN << >>
    ELSE [col \in 1..w |-> screen[<<col - 1, row_idx>>]]
            \o RowEnd(row_idx, h)
            \o TextRows(screen, row_idx + 1, w, h)

(* render_frame() on particles ps, a w x h buffer and frame count n *)
render_frame(ps, w, h, n) ==
    LET placed == PlaceLoop(ps, 1, BlankScreen(w, h), << >>, w, h, n)
    IN  [screen |-> placed.screen,
         writes |-> placed.writes,
         text |-> TextRows(placed.screen, 0, w, h)]

----------------------------------------------------------------------------
(* keyboard.py: NonBlockingInput, and the terminal it acts on.  The        *)
(* terminal's attributes are the two flags tty.setcbreak clears.           *)

TermSettings == [echo : BOOLEAN, icanon : BOOLEAN]

(* tty.setcbreak(fd) *)
SetCbreak(t) == [t EXCEPT !.echo = FALSE, !.icanon = FALSE]

(* NonBlockingInput.__init__ *)
NewKb == [old_settings |-> << >>, atexit |-> FALSE]

(* the _restore that writes nothing *)
RestoreNothing(k, t) == t

(* NonBlockingInput._restore: the terminal after the call *)
Restore(k, t) == IF k.old_settings # << >> THEN k.old_settings[1] ELSE t

(* does _restore call tcsetattr *)
RestoreWrites(k) == k.old_settings # << >>

InitTally ==
    [hide |-> 0, show |-> 0, enter |-> 0, restore |-> 0, frames |-> 0, typed |-> 0,
     polls |-> 0, settles |-> 0, sleeps |-> 0]

----------------------------------------------------------------------------
(* Construction: CascadeAnimation.__init__ on a console of size w x h *)

(* console.size: one column, two columns, and wide enough to show the      *)
(* first column of cell 0                                                  *)
Widths == {1, 2, cell_to_screen_bounds(0).x1 + 1}
Heights == 1..MaxHeight

(* the scene positions of the model: two rows of the two leftmost         *)
(* columns, the top-left corner of cell 0's interior, and one position     *)
(* above that corner                                                       *)
Cell0 == <<cell_to_screen_bounds(0).x1, cell_to_screen_bounds(0).y1>>
ScenePositions(baseRow) ==
    ({ <<x, baseRow + r>> : x \in 0..1, r \in 0..1 })
        \cup {Cell0, <<Cell0[1], baseRow>>}

Scenes(baseRow) ==
    { S \in SUBSET ScenePositions(baseRow) : S # {} /\ Cardinality(S) <= MaxParticles }

(* frozen_cells: no cell, or cell 0 when the scene has a glyph in it *)
FrozenFor(scene) == IF Cell0 \in scene THEN { {}, {0} } ELSE { {} }

(* the draws of random.uniform and random.choice; Particle.create draws    *)
(* nothing for a frozen particle                                           *)
DrawsVel(scene, fc) ==
    { d \in [scene -> Velocities] :
        \A pos \in scene : is_in_frozen_area(pos[1], pos[2], fc) => d[pos] = 1 }
DrawsSpin(scene, fc) ==
    { d \in [scene -> Spins] :
        \A pos \in scene : is_in_frozen_area(pos[1], pos[2], fc) => d[pos] = 1 }

(* no render_frame() call has been made since the particles last moved *)
NoFrame == [done |-> FALSE, ps |-> << >>, n |-> 0]

Construct(w, h, scene, board_styles, frozen_cells, drawVel, drawSpin) ==
    /\ width = w
    /\ height = h
    /\ particles = _init_particles(BoardLines(scene), board_styles, frozen_cells,
                                   drawVel, drawSpin)
    /\ created = particles
    /\ floor = InitFloor(w, h)
    /\ frame_count = 0
    /\ still_moving = FALSE
    /\ calls = 0
    /\ floor_log = << >>
    /\ arg_scene = scene
    /\ arg_frozen = frozen_cells
    /\ rendered = NoFrame

NoKey == "None"

(* the outcome of a call: not made yet, a value returned, or an exception *)
Unset == [called |-> FALSE, raised |-> "None", value |-> 0]
Returned(v) == [called |-> TRUE, raised |-> "None", value |-> v]
Raised(e) == [called |-> TRUE, raised |-> e, value |-> 0]

(* the game around the animation, when only the animation is looked at *)
NoProbe == [x |-> 0, y |-> 0, frozen_cells |-> {}, cells |-> << >>]
NoPure ==
    /\ grid = << >>
    /\ index = Unset
    /\ probe = NoProbe
    /\ inside = [called |-> FALSE, value |-> FALSE]

(* renderer.py 56-62: RichRenderer.__init__; None is the empty board here *)
NewRendererFields ==
    [_cascade_played |-> FALSE, _first_render |-> TRUE, _current_state |-> << >>,
     _error_message |-> "None"]
NewRenderer ==
    /\ renderer = NewRendererFields
    /\ out = << >>
    /\ rcalls = << >>

(* no get_move call *)
NoPlayer ==
    player = [game_state |-> << >>, pc |-> "idle", prompts |-> 0, inputs |-> << >>,
              move |-> [raised |-> "None", kind |-> "None", cell_index |-> -1,
                        mark |-> "None", after_state |-> << >>]]

(* no second animation is run beside the first *)
NoShadow == shadow = [particles |-> << >>, floor |-> << >>, still_moving |-> FALSE]

NoGame ==
    /\ NoPure
    /\ NewRenderer
    /\ NoPlayer
    /\ NoShadow

RunIdle(t) ==
    /\ pc = "idle"
    /\ stdin = << >>
    /\ inbuf = << >>
    /\ key = NoKey
    /\ term = t
    /\ term0 = t
    /\ kb = NewKb
    /\ cursor = "shown"
    /\ tally = InitTally
    /\ exc = FALSE
    /\ tty = << >>
    /\ caller = "render"

(* an animation made and not run, when only the game is looked at *)
NoCascade ==
    /\ Construct(MIN_WIDTH, MIN_HEIGHT, {Cell0}, BoardStyles({Cell0}), {0},
                 [pos \in {Cell0} |-> 1], [pos \in {Cell0} |-> 1])
    /\ RunIdle([echo |-> TRUE, icanon |-> TRUE])
    /\ NoShadow

Init ==
    /\ \E w \in Widths, h \in Heights, scene \in Scenes(0) :
         \E fc \in FrozenFor(scene) :
            \E drawVel \in DrawsVel(scene, fc), drawSpin \in DrawsSpin(scene, fc) :
               Construct(w, h, scene, BoardStyles(scene), fc, drawVel, drawSpin)
    /\ RunIdle([echo |-> TRUE, icanon |-> TRUE])
    /\ NoGame

MaxCalls == Den * MaxHeight + 2

(* a caller invokes update() directly *)
Update ==
    /\ calls < MaxCalls
    /\ LET r == update(particles, floor, height)
       IN  /\ particles' = r.particles
           /\ floor' = r.floor
           /\ still_moving' = r.still_moving
           /\ floor_log' = r.log
    /\ calls' = calls + 1
    /\ rendered' = NoFrame
    /\ UNCHANGED <<width, height, frame_count, created, arg_scene, arg_frozen>>
    /\ UNCHANGED runVars

Next == Update

Spec == Init /\ [][Next]_vars

----------------------------------------------------------------------------
(* update() and render_frame() called directly, frame by frame, on a       *)
(* console of 2 x 1 (glyphs outside the buffer on every side) and on one   *)
(* that just holds the top-left corner of cell 0                           *)

RenderSizes == { <<2, 1>>, <<Cell0[1] + 1, Cell0[2] + 1>> }

RenderScenes ==
    { S \in SUBSET ScenePositions(0) : S # {} /\ Cardinality(S) <= 2 }

(* the styles board_styles may hold for the glyph in cell 0 *)
CellStyles ==
    {"bold red reverse", "bold blue reverse", "BOLD RED", "bold BLUE",
     "blue on red", "bold yellow", "", NoStyle}

RenderStyles(scene) ==
    IF Cell0 \in scene
    THEN { [pos \in scene |-> IF pos = Cell0 THEN cs ELSE BoardStyle(pos)] :
             cs \in CellStyles }
    ELSE { BoardStyles(scene) }

InitRender ==
    /\ \E size \in RenderSizes, scene \in RenderScenes :
         \E fc \in FrozenFor(scene), board_styles \in RenderStyles(scene) :
            \E drawVel \in DrawsVel(scene, fc), drawSpin \in DrawsSpin(scene, fc) :
               Construct(size[1], size[2], scene, board_styles, fc, drawVel, drawSpin)
    /\ RunIdle([echo |-> TRUE, icanon |-> TRUE])
    /\ NoGame

(* the frames a fall through the taller console can need, with two to spare *)
RenderCalls == Den * Cell0[2] + 2

(* lines 221-224, called directly: update(), then _frame_count += 1 *)
Advance ==
    /\ calls < RenderCalls
    /\ LET r == update(particles, floor, height)
       IN  /\ particles' = r.particles
           /\ floor' = r.floor
           /\ still_moving' = r.still_moving
           /\ floor_log' = r.log
    /\ calls' = calls + 1
    /\ frame_count' = frame_count + 1
    /\ rendered' = NoFrame
    /\ UNCHANGED <<width, height, created, arg_scene, arg_frozen>>
    /\ UNCHANGED runVars

(* a caller invokes render_frame() directly *)
RenderFrame ==
    /\ rendered' = [done |-> TRUE, ps |-> particles, n |-> frame_count]
    /\ UNCHANGED <<runVars, animVars>>

NextRender ==
    \/ Advance
    \/ RenderFrame

SpecRender == InitRender /\ [][NextRender]_vars

----------------------------------------------------------------------------
(* animation.py: CascadeAnimation.run, one action per statement.  A run    *)
(* starts on a console at or just under the minimum size, with the scene's *)
(* glyphs in the row above the bottom row and in cell 0 (frozen).          *)

RunWidths == {MIN_WIDTH - 1, MIN_WIDTH}
RunHeights == {MIN_HEIGHT - 1, MIN_HEIGHT}
RunRow == MIN_HEIGHT - 2

RunScenes ==
    { S \in SUBSET {<<0, RunRow>>, <<1, RunRow>>, Cell0} :
        S # {} /\ Cardinality(S) <= 2 }

(* the terminal before the run: line-buffered, with or without echo *)
RunTerms == { [echo |-> e, icanon |-> TRUE] : e \in BOOLEAN }

InitRun ==
    /\ \E w \in RunWidths, h \in RunHeights, scene \in RunScenes :
         \E drawVel \in DrawsVel(scene, {0}), drawSpin \in DrawsSpin(scene, {0}) :
            Construct(w, h, scene, BoardStyles(scene), {0}, drawVel, drawSpin)
    /\ \E t \in RunTerms : RunIdle(t)
    /\ NoGame

(* the frames a run of the model can need, with one to spare *)
MaxFrames == Den * (MIN_HEIGHT - RunRow) + 2

Keys == {" ", "q"}

LoopPcs == {"poll", "update", "count", "home", "print", "settle", "sleep"}
Ended == {"returned", "raised"}

(* the user types a character before the run or while it is on *)
KeyTyped ==
    /\ pc \in {"idle", "poll", "sleep"}
    /\ tally.typed < MaxKeys
    /\ \E c \in Keys : stdin' = Append(stdin, c)
    /\ tally' = [tally EXCEPT !.typed = @ + 1]
    /\ UNCHANGED gameVars
    /\ UNCHANGED <<pc, inbuf, key, term, term0, kb, cursor, exc>>
    /\ UNCHANGED outVars
    /\ UNCHANGED animVars

(* the size test that wants both dimensions short *)
TooSmallBoth(w, h) == w < MIN_WIDTH /\ h < MIN_HEIGHT

(* line 203: the size test *)
TooSmall(w, h) == w < MIN_WIDTH \/ h < MIN_HEIGHT

(* lines 203-204: the display is too small, run() returns at once *)
RunTooSmall ==
    /\ pc = "idle"
    /\ TooSmall(width, height)
    /\ pc' = "returned"
    /\ UNCHANGED gameVars
    /\ UNCHANGED <<stdin, inbuf, key, term, term0, kb, cursor, tally, exc>>
    /\ UNCHANGED outVars
    /\ UNCHANGED animVars

(* lines 209-210: HIDE_CURSOR *)
RunHide ==
    /\ pc = "idle"
    /\ ~TooSmall(width, height)
    /\ cursor' = "hidden"
    /\ tty' = Append(tty, HIDE_CURSOR)
    /\ tally' = [tally EXCEPT !.hide = @ + 1]
    /\ pc' = "enter"
    /\ UNCHANGED gameVars
    /\ UNCHANGED <<stdin, inbuf, key, term, term0, kb, exc, rendered, caller>>
    /\ UNCHANGED animVars

(* line 213 and keyboard.py 30-35: NonBlockingInput().__enter__();        *)
(* tty.setcbreak() changes the mode with TCSAFLUSH, which discards what    *)
(* was typed and not yet read                                              *)
Enter ==
    /\ pc = "enter"
    /\ kb' = [old_settings |-> <<term>>, atexit |-> TRUE]
    /\ term' = SetCbreak(term)
    /\ stdin' = << >>
    /\ tty' = Append(tty, CBREAK)
    /\ tally' = [tally EXCEPT !.enter = @ + 1]
    /\ pc' = "poll"
    /\ UNCHANGED gameVars
    /\ UNCHANGED <<inbuf, key, term0, cursor, exc, rendered, caller>>
    /\ UNCHANGED animVars

(* __enter__ raises: in tcgetattr (nothing saved) or in setcbreak (the     *)
(* settings saved, the mode not changed); __exit__ is not called           *)
EnterFails ==
    /\ pc = "enter"
    /\ \E saved \in BOOLEAN :
          kb' = [old_settings |-> IF saved THEN <<term>> ELSE << >>,
                 atexit |-> FALSE]
    /\ exc' = TRUE
    /\ pc' = "finally"
    /\ UNCHANGED gameVars
    /\ UNCHANGED <<stdin, inbuf, key, term, term0, cursor, tally>>
    /\ UNCHANGED outVars
    /\ UNCHANGED animVars

(* keyboard.py 52-60: key_pressed().  select() sees only what the terminal *)
(* holds; sys.stdin.read(1) returns a character read ahead when there is   *)
(* one, and otherwise reads all the terminal holds and returns the first   *)
key_pressed(input, buffered) ==
    IF input = << >> THEN [key |-> NoKey, rest |-> input, buffered |-> buffered]
    ELSE IF buffered # << >>
    THEN [key |-> Head(buffered), rest |-> input, buffered |-> Tail(buffered)]
    ELSE [key |-> Head(input), rest |-> << >>, buffered |-> Tail(input)]

(* the poll whose Space is not looked at before the frame is made *)
PollUpdatesFirst ==
    /\ pc = "poll"
    /\ LET r == key_pressed(stdin, inbuf)
       IN  /\ key' = r.key
           /\ stdin' = r.rest
           /\ inbuf' = r.buffered
           /\ pc' = "update"
    /\ tally' = [tally EXCEPT !.polls = @ + 1]
    /\ UNCHANGED gameVars
    /\ UNCHANGED <<term, term0, kb, cursor, exc>>
    /\ UNCHANGED outVars
    /\ UNCHANGED animVars

(* lines 216-218: poll, and leave the loop on Space *)
Poll ==
    /\ pc = "poll"
    /\ LET r == key_pressed(stdin, inbuf)
       IN  /\ key' = r.key
           /\ stdin' = r.rest
           /\ inbuf' = r.buffered
           /\ pc' = IF r.key = " " THEN "exit" ELSE "update"
    /\ tally' = [tally EXCEPT !.polls = @ + 1]
    /\ UNCHANGED gameVars
    /\ UNCHANGED <<term, term0, kb, cursor, exc>>
    /\ UNCHANGED outVars
    /\ UNCHANGED animVars

(* line 221 *)
LoopUpdate ==
    /\ pc = "update"
    /\ LET r == update(particles, floor, height)
       IN  /\ particles' = r.particles
           /\ floor' = r.floor
           /\ still_moving' = r.still_moving
           /\ floor_log' = r.log
    /\ calls' = calls + 1
    /\ pc' = "count"
    /\ rendered' = NoFrame
    /\ UNCHANGED <<width, height, frame_count, created, arg_scene, arg_frozen>>
    /\ UNCHANGED gameVars
    /\ UNCHANGED <<stdin, inbuf, key, term, term0, kb, cursor, tally, exc, tty, caller>>

(* line 224 *)
Count ==
    /\ pc = "count"
    /\ frame_count < MaxFrames
    /\ frame_count' = frame_count + 1
    /\ pc' = "home"
    /\ UNCHANGED <<width, height, particles, floor, still_moving, calls,
                   created, floor_log, arg_scene, arg_frozen>>
    /\ UNCHANGED gameVars
    /\ UNCHANGED <<stdin, inbuf, key, term, term0, kb, cursor, tally, exc>>
    /\ UNCHANGED outVars

(* lines 227-228: CURSOR_HOME *)
Home ==
    /\ pc = "home"
    /\ tty' = Append(tty, CURSOR_HOME)
    /\ pc' = "print"
    /\ UNCHANGED gameVars
    /\ UNCHANGED <<stdin, inbuf, key, term, term0, kb, cursor, tally, exc>>
    /\ UNCHANGED <<rendered, caller>>
    /\ UNCHANGED animVars

(* the frame write after which the loop always sleeps a frame period *)
PrintFrameSleeps ==
    /\ pc = "print"
    /\ rendered' = [done |-> TRUE, ps |-> particles, n |-> frame_count]
    /\ tty' = Append(tty, FRAME)
    /\ tally' = [tally EXCEPT !.frames = @ + 1]
    /\ pc' = "sleep"
    /\ UNCHANGED gameVars
    /\ UNCHANGED <<stdin, inbuf, key, term, term0, kb, cursor, exc, caller>>
    /\ UNCHANGED animVars

(* lines 229-232: the frame is printed; the loop goes on or settles *)
PrintFrame ==
    /\ pc = "print"
    /\ rendered' = [done |-> TRUE, ps |-> particles, n |-> frame_count]
    /\ tty' = Append(tty, FRAME)
    /\ tally' = [tally EXCEPT !.frames = @ + 1]
    /\ pc' = IF still_moving THEN "sleep" ELSE "settle"
    /\ UNCHANGED gameVars
    /\ UNCHANGED <<stdin, inbuf, key, term, term0, kb, cursor, exc, caller>>
    /\ UNCHANGED animVars

(* lines 233-234: time.sleep(1.0); break *)
Settle ==
    /\ pc = "settle"
    /\ tally' = [tally EXCEPT !.settles = @ + 1]
    /\ pc' = "exit"
    /\ UNCHANGED gameVars
    /\ UNCHANGED <<stdin, inbuf, key, term, term0, kb, cursor, exc>>
    /\ UNCHANGED outVars
    /\ UNCHANGED animVars

(* line 236: time.sleep(frame_time) *)
Sleep ==
    /\ pc = "sleep"
    /\ tally' = [tally EXCEPT !.sleeps = @ + 1]
    /\ pc' = "poll"
    /\ UNCHANGED gameVars
    /\ UNCHANGED <<stdin, inbuf, key, term, term0, kb, cursor, exc>>
    /\ UNCHANGED outVars
    /\ UNCHANGED animVars

(* a statement of the loop raises (an I/O error, KeyboardInterrupt) *)
Fail ==
    /\ pc \in LoopPcs
    /\ exc' = TRUE
    /\ pc' = "exit"
    /\ UNCHANGED gameVars
    /\ UNCHANGED <<stdin, inbuf, key, term, term0, kb, cursor, tally>>
    /\ UNCHANGED outVars
    /\ UNCHANGED animVars

(* the __exit__ that leaves the exit fallback registered *)
ExitKeepsFallback ==
    /\ pc = "exit"
    /\ term' = Restore(kb, term)
    /\ tty' = IF RestoreWrites(kb) THEN Append(tty, RESTORE) ELSE tty
    /\ tally' = [tally EXCEPT !.restore = @ + (IF RestoreWrites(kb) THEN 1 ELSE 0)]
    /\ pc' = "finally"
    /\ UNCHANGED gameVars
    /\ UNCHANGED <<stdin, inbuf, key, term0, kb, cursor, exc, rendered, caller>>
    /\ UNCHANGED animVars

(* keyboard.py 37-45: __exit__, on leaving the with block either way *)
Exit ==
    /\ pc = "exit"
    /\ term' = Restore(kb, term)
    /\ tty' = IF RestoreWrites(kb) THEN Append(tty, RESTORE) ELSE tty
    /\ tally' = [tally EXCEPT !.restore = @ + (IF RestoreWrites(kb) THEN 1 ELSE 0)]
    /\ kb' = [kb EXCEPT !.atexit = FALSE]
    /\ pc' = "finally"
    /\ UNCHANGED gameVars
    /\ UNCHANGED <<stdin, inbuf, key, term0, cursor, exc, rendered, caller>>
    /\ UNCHANGED animVars

(* the clause that shows the cursor only when the loop raised *)
FinallyOnlyOnError ==
    /\ pc = "finally"
    /\ cursor' = IF exc THEN "shown" ELSE cursor
    /\ tty' = IF exc THEN Append(tty, SHOW_CURSOR) ELSE tty
    /\ tally' = [tally EXCEPT !.show = @ + (IF exc THEN 1 ELSE 0)]
    /\ pc' = IF exc THEN "raised" ELSE "returned"
    /\ UNCHANGED gameVars
    /\ UNCHANGED <<stdin, inbuf, key, term, term0, kb, exc, rendered, caller>>
    /\ UNCHANGED animVars

(* lines 237-240: finally: SHOW_CURSOR; then return or re-raise *)
Finally ==
    /\ pc = "finally"
    /\ cursor' = "shown"
    /\ tty' = Append(tty, SHOW_CURSOR)
    /\ tally' = [tally EXCEPT !.show = @ + 1]
    /\ pc' = IF exc THEN "raised" ELSE "returned"
    /\ UNCHANGED gameVars
    /\ UNCHANGED <<stdin, inbuf, key, term, term0, kb, exc, rendered, caller>>
    /\ UNCHANGED animVars

(* renderer.py 85-88 and 290-309: render() calls _play_cascade_animation,  *)
(* which calls run() with no handler around it, so render() returns when   *)
(* run() returns and raises what run() raises                              *)
PlayCascadeEnds ==
    /\ pc \in Ended
    /\ caller = "render"
    /\ caller' = IF pc = "raised" THEN "raised" ELSE "returned"
    /\ UNCHANGED gameVars
    /\ UNCHANGED <<pc, stdin, inbuf, key, term, term0, kb, cursor, tally, exc,
                   tty, rendered>>
    /\ UNCHANGED animVars

RunStep ==
    \/ RunTooSmall
    \/ RunHide
    \/ Enter
    \/ Poll
    \/ LoopUpdate
    \/ Count
    \/ Home
    \/ PrintFrame
    \/ Settle
    \/ Sleep
    \/ Exit
    \/ Finally

NextRun ==
    \/ RunStep
    \/ EnterFails
    \/ Fail
    \/ KeyTyped
    \/ PlayCascadeEnds

SpecRun == InitRun /\ [][NextRun]_vars

(* the interpreter runs the next statement of run() when there is one *)
FairRun == SpecRun /\ WF_vars(RunStep)


----------------------------------------------------------------------------
(* player.py: grid_to_index, called on its own with every short string     *)
(* over the characters below                                               *)

MaxGridLen == 3

GridChars == {"a", "b", "c", "A", "B", "C", "1", "2", "3", " ", "\n", "x", "d", "4", "0"}

RECURSIVE StringsUpTo(_)
StringsUpTo(n) ==
    IF n = 0 THEN { << >> }
    ELSE LET shorter == StringsUpTo(n - 1)
         IN  shorter \cup { Append(t, c) : t \in shorter, c \in GridChars }

(* str.strip() with no argument removes whitespace at both ends *)
Whitespace == {" ", "\n"}
RECURSIVE lstrip(_)
lstrip(chars) ==
    IF chars # << >> /\ Head(chars) \in Whitespace THEN lstrip(Tail(chars))
    ELSE chars
RECURSIVE rstrip(_)
rstrip(chars) ==
    IF chars # << >> /\ chars[Len(chars)] \in Whitespace
    THEN rstrip(SubSeq(chars, 1, Len(chars) - 1))
    ELSE chars
strip(chars) == rstrip(lstrip(chars))

(* str.upper(), ord() of a letter and int() of a digit *)
UpperChar(c) ==
    IF \E i \in DOMAIN LowerLetters : LowerLetters[i] = c
    THEN UpperLetters[CHOOSE i \in DOMAIN LowerLetters : LowerLetters[i] = c]
    ELSE c
OrdA == 65
Ord(c) ==
    IF \E i \in DOMAIN UpperLetters : UpperLetters[i] = c
    THEN OrdA - 1 + (CHOOSE i \in DOMAIN UpperLetters : UpperLetters[i] = c)
    ELSE OrdA + 31 + (CHOOSE i \in DOMAIN LowerLetters : LowerLetters[i] = c)
Digits == <<"1", "2", "3", "4", "5", "6", "7", "8", "9">>
IntOfDigit(c) ==
    IF c = "0" THEN 0 ELSE CHOOSE i \in DOMAIN Digits : Digits[i] = c

(* the two character classes of the patterns *)
ColumnChars == {"a", "b", "c", "A", "B", "C"}
RowChars == {"1", "2", "3"}

(* re.match(r"[X][Y]", s): the pattern is looked for at the start of s,    *)
(* and what follows the two characters is not looked at                    *)
ReMatch(first, second, chars) ==
    Len(chars) >= 2 /\ chars[1] \in first /\ chars[2] \in second

ValueError == "ValueError"

(* player.py 17-36 *)
grid_to_index(chars) ==
    LET g == strip(chars)
        cell(col, row) == 3 * (IntOfDigit(row) - 1) + (Ord(UpperChar(col)) - OrdA)
    IN  IF ReMatch(ColumnChars, RowChars, g) THEN Returned(cell(g[1], g[2]))
        ELSE IF ReMatch(RowChars, ColumnChars, g) THEN Returned(cell(g[2], g[1]))
        ELSE Raised(ValueError)

InitGrid ==
    /\ NoCascade
    /\ NewRenderer
    /\ NoPlayer
    /\ grid \in StringsUpTo(MaxGridLen)
    /\ index = Unset
    /\ probe = NoProbe
    /\ inside = [called |-> FALSE, value |-> FALSE]

(* the call index = grid_to_index(grid) *)
GridToIndex ==
    /\ ~index.called
    /\ index' = grid_to_index(grid)
    /\ UNCHANGED <<grid, probe, inside, rendererVars, player>>
    /\ UNCHANGED cascadeVars

SpecGrid == InitGrid /\ [][GridToIndex]_vars

----------------------------------------------------------------------------
(* The game state the renderer is handed: the nine cells, and what the     *)
(* rules engine derives from them (winner, tie, game_over, winning_cells)  *)

CROSS == "X"
(* the tests of the renderer write the naught as the digit 0 *)
NAUGHT == "0"
EMPTY == " "

(* cells[i + 1] is the cell of index i *)
CellAt(cells, i) == cells[i + 1]

WinningLines ==
    << {0, 1, 2}, {3, 4, 5}, {6, 7, 8}, {0, 3, 6}, {1, 4, 7}, {2, 5, 8},
       {0, 4, 8}, {2, 4, 6} >>

Wins(cells, mark) ==
    \E k \in DOMAIN WinningLines : \A i \in WinningLines[k] : CellAt(cells, i) = mark

winner(cells) ==
    IF Wins(cells, CROSS) THEN CROSS
    ELSE IF Wins(cells, NAUGHT) THEN NAUGHT
    ELSE "None"

winning_cells(cells) ==
    IF winner(cells) = "None" THEN {}
    ELSE LET k == CHOOSE k \in DOMAIN WinningLines :
                     /\ \A i \in WinningLines[k] : CellAt(cells, i) = winner(cells)
                     /\ \A j \in 1..(k - 1) :
                           \E i \in WinningLines[j] : CellAt(cells, i) # winner(cells)
         IN  WinningLines[k]

tie(cells) == winner(cells) = "None" /\ \A i \in 0..8 : CellAt(cells, i) # EMPTY

game_over(cells) == winner(cells) # "None" \/ tie(cells)

(* X moves first *)
current_mark(cells) ==
    IF Cardinality({ i \in 0..8 : CellAt(cells, i) = CROSS })
           = Cardinality({ i \in 0..8 : CellAt(cells, i) = NAUGHT })
    THEN CROSS ELSE NAUGHT

(* the boards of the model: empty, in progress, X wins a row, 0 wins a     *)
(* column, X wins a diagonal on a full board, and a tie                    *)
BoardEmpty == << " ", " ", " ",  " ", " ", " ",  " ", " ", " " >>
BoardOpen == << "X", "0", " ",  " ", "X", " ",  " ", " ", "0" >>
BoardXRow == << "X", "X", "X",  "0", "0", " ",  " ", " ", " " >>
BoardOColumn == << "X", "0", "X",  "X", "0", " ",  " ", "0", " " >>
BoardXDiagonal == << "X", "0", "0",  "0", "X", "X",  "X", "0", "X" >>
BoardTie == << "X", "0", "X",  "X", "0", "0",  "0", "X", "X" >>

GameStates == {BoardEmpty, BoardOpen, BoardXRow, BoardOColumn, BoardXDiagonal, BoardTie}

----------------------------------------------------------------------------
(* renderer.py: the status line and the layout of the scene of the         *)
(* animation, each line a sequence of pieces laid side by side             *)

(* lines 273-288: _get_status_text, as characters *)
_get_status_text(cells) ==
    IF winner(cells) # "None"
    THEN <<"P", "l", "a", "y", "e", "r", " ", winner(cells), " ", "w", "i", "n", "s", "!">>
    ELSE IF tie(cells)
    THEN <<"I", "t", "'", "s", " ", "a", " ", "t", "i", "e", "!">>
    ELSE <<"P", "l", "a", "y", "e", "r", " ", current_mark(cells), "'", "s", " ",
           "t", "u", "r", "n">>

(* a piece of a line: what it is, whose cell it is (-1: nobody's), how wide *)
Piece(part, cell, wide) == [part |-> part, cell |-> cell, wide |-> wide]
Blank(wide) == Piece("blank", -1, wide)
Border(wide) == Piece("border", -1, wide)

(* lines 205-221: _create_column_headers *)
_create_column_headers ==
    LET padding == (CELL_WIDTH - 1) \div 2
        label(col) ==
            << Blank(padding), Piece("header", -1, 1), Blank(CELL_WIDTH - padding - 1) >>
                \o (IF col < 2 THEN << Blank(1) >> ELSE << >>)
    IN  << Blank(ROW_LABEL_WIDTH), Blank(1) >> \o label(0) \o label(1) \o label(2)

(* lines 331-341 and 375-396: the top border, a separator, the bottom border *)
BorderLine ==
    << Blank(ROW_LABEL_WIDTH), Border(1), Border(CELL_WIDTH), Border(1),
       Border(CELL_WIDTH), Border(1), Border(CELL_WIDTH), Border(1) >>

(* lines 223-250: one line of _build_row *)
RowLine(row) ==
    << Border(1), Piece("art", row * 3, CELL_WIDTH),
       Border(1), Piece("art", row * 3 + 1, CELL_WIDTH),
       Border(1), Piece("art", row * 3 + 2, CELL_WIDTH), Border(1) >>

(* lines 347-353: the row label on the middle line of a row, blanks on the rest *)
Prefix(i) ==
    IF i = CELL_HEIGHT \div 2
    THEN << Blank(1), Piece("label", -1, 1), Blank(1) >>
    ELSE << Blank(ROW_LABEL_WIDTH) >>

(* lines 343-397: the lines of one row of cells and the line under them *)
RowLines(row) ==
    [i \in 1..CELL_HEIGHT |-> Prefix(i - 1) \o RowLine(row)] \o << BorderLine >>

(* lines 311-417: the lines of _build_board_for_animation, top to bottom *)
SceneLines(cells) ==
    << _create_column_headers, BorderLine >>
        \o RowLines(0) \o RowLines(1) \o RowLines(2)
        \o << << >>, << Piece("status", -1, Len(_get_status_text(cells))) >> >>

(* the piece that holds column x of a line, Blank(0) past the line's end *)
RECURSIVE PieceAt(_, _)
PieceAt(line, x) ==
    IF line = << >> \/ x < 0 THEN Blank(0)
    ELSE IF x < Head(line).wide THEN Head(line)
    ELSE PieceAt(Tail(line), x - Head(line).wide)

(* the piece at column x of line y of the scene *)
SceneAt(cells, x, y) ==
    IF y + 1 \in DOMAIN SceneLines(cells) THEN PieceAt(SceneLines(cells)[y + 1], x)
    ELSE Blank(0)

(* is_in_frozen_area called on its own: every position of a console of the *)
(* minimum size and one step around it, with no cell, one cell or one      *)
(* winning line frozen                                                     *)
ProbeFrozen ==
    { {} } \cup { {i} : i \in 0..8 } \cup { WinningLines[k] : k \in DOMAIN WinningLines }

InitProbe ==
    /\ NoCascade
    /\ NewRenderer
    /\ NoPlayer
    /\ grid = << >>
    /\ index = Unset
    /\ \E x \in (-1)..MIN_WIDTH, y \in (-1)..MIN_HEIGHT, F \in ProbeFrozen,
          cells \in {BoardOpen, BoardXRow, BoardTie} :
          probe = [x |-> x, y |-> y, frozen_cells |-> F, cells |-> cells]
    /\ inside = [called |-> FALSE, value |-> FALSE]

(* the call inside = is_in_frozen_area(x, y, frozen_cells) *)
IsInFrozenArea ==
    /\ ~inside.called
    /\ inside' = [called |-> TRUE,
                  value |-> is_in_frozen_area(probe.x, probe.y, probe.frozen_cells)]
    /\ UNCHANGED <<grid, index, probe, rendererVars, player>>
    /\ UNCHANGED cascadeVars

SpecProbe == InitProbe /\ [][IsInFrozenArea]_vars

----------------------------------------------------------------------------
(* renderer.py: RichRenderer.render and show_error, called in any order on *)
(* one renderer                                                            *)

MaxRendererCalls == 3

(* the cell line that never highlights *)
_get_cell_line_plain(cell, line_idx, is_winning) ==
    IF cell = CROSS THEN [art |-> "X_ART", line |-> line_idx, style |-> "bold red"]
    ELSE IF cell = NAUGHT THEN [art |-> "O_ART", line |-> line_idx, style |-> "bold blue"]
    ELSE [art |-> "blank", line |-> line_idx, style |-> NoStyle]

(* lines 252-271: the text (which art, which line of it) and the style of  *)
(* one line of a cell                                                      *)
_get_cell_line(cell, line_idx, is_winning) ==
    IF cell = CROSS
    THEN [art |-> "X_ART", line |-> line_idx,
          style |-> IF is_winning THEN "bold red reverse" ELSE "bold red"]
    ELSE IF cell = NAUGHT
    THEN [art |-> "O_ART", line |-> line_idx,
          style |-> IF is_winning THEN "bold blue reverse" ELSE "bold blue"]
    ELSE [art |-> "blank", line |-> line_idx, style |-> NoStyle]

(* lines 223-250: the lines of the three cells of a row, by line and column *)
_build_row(row, cells, winning) ==
    [line_idx \in 0..(CELL_HEIGHT - 1) |->
        [col \in 0..2 |->
            LET i == row * 3 + col
            IN  _get_cell_line(CellAt(cells, i), line_idx, i \in winning)]]

(* lines 139-203: the cells of _build_board, by row *)
_build_board(cells) ==
    LET winning == IF game_over(cells) THEN winning_cells(cells) ELSE {}
    IN  [row \in 0..2 |-> _build_row(row, cells, winning)]

(* one thing written to the screen by call number k: a control sequence,  *)
(* the content (board, status and error message), or the whole animation   *)
Wrote(token, k) ==
    [write |-> token, call |-> k, cells |-> << >>, board |-> << >>, error |-> "None"]
CONTENT == "content"
CASCADE == "cascade"

(* lines 90-113: _print_content; an empty message is not printed *)
_print_content(cells, error_message, k) ==
    << [write |-> CONTENT, call |-> k, cells |-> cells, board |-> _build_board(cells),
        error |-> IF error_message \in {"None", ""} THEN "None" ELSE error_message],
       Wrote(CLEAR_TO_END, k) >>

(* lines 290-309: how a run of the animation can end for its caller *)
CascadeEnds == {"completed", "cancelled", "failed"}

(* the render that notes the animation as played once it has come back *)
render_flag_after(r, cells, k, ends) ==
    LET head == IF r._first_render
                THEN << Wrote(CLEAR_SCREEN, k), Wrote(CURSOR_HOME, k) >>
                ELSE << Wrote(CURSOR_HOME, k) >>
        plays == game_over(cells) /\ ~r._cascade_played
    IN  [renderer |-> [_cascade_played |->
                           r._cascade_played \/ (plays /\ ends # "failed"),
                       _first_render |-> FALSE,
                       _current_state |-> cells,
                       _error_message |-> "None"],
         writes |-> head \o _print_content(cells, "None", k)
                        \o (IF plays THEN << Wrote(CASCADE, k) >> ELSE << >>),
         raised |-> plays /\ ends = "failed"]

(* the render that clears the screen as long as no game is over *)
render_clears(r, cells, k, ends) ==
    LET head == IF r._first_render
                THEN << Wrote(CLEAR_SCREEN, k), Wrote(CURSOR_HOME, k) >>
                ELSE << Wrote(CURSOR_HOME, k) >>
        plays == game_over(cells) /\ ~r._cascade_played
    IN  [renderer |-> [_cascade_played |-> r._cascade_played \/ plays,
                       _first_render |-> r._first_render /\ ~game_over(cells),
                       _current_state |-> cells,
                       _error_message |-> "None"],
         writes |-> head \o _print_content(cells, "None", k)
                        \o (IF plays THEN << Wrote(CASCADE, k) >> ELSE << >>),
         raised |-> plays /\ ends = "failed"]

(* lines 64-88: render(game_state) as call number k on the renderer r,     *)
(* the animation, if it starts, ending as `ends` says                      *)
render(r, cells, k, ends) ==
    LET head == IF r._first_render
                THEN << Wrote(CLEAR_SCREEN, k), Wrote(CURSOR_HOME, k) >>
                ELSE << Wrote(CURSOR_HOME, k) >>
        plays == game_over(cells) /\ ~r._cascade_played
    IN  [renderer |-> [_cascade_played |-> r._cascade_played \/ plays,
                       _first_render |-> FALSE,
                       _current_state |-> cells,
                       _error_message |-> "None"],
         writes |-> head \o _print_content(cells, "None", k)
                        \o (IF plays THEN << Wrote(CASCADE, k) >> ELSE << >>),
         raised |-> plays /\ ends = "failed"]

(* lines 126-137: show_error(message) as call number k *)
show_error(r, message, k) ==
    [renderer |-> [r EXCEPT !._error_message = message],
     writes |-> IF r._current_state # << >>
                THEN << Wrote(CURSOR_HOME, k) >>
                         \o _print_content(r._current_state, message, k)
                ELSE << >>]

(* the messages of the model: the two of the player, and the empty one *)
Messages ==
    {"Please provide coordinates in the form of A1 or 1A",
     "That cell is already occupied.", ""}

InitRenderer ==
    /\ NoCascade
    /\ NoPure
    /\ NewRenderer
    /\ NoPlayer

Render ==
    /\ Len(rcalls) < MaxRendererCalls
    /\ \E cells \in GameStates, ends \in CascadeEnds :
          LET k == Len(rcalls) + 1
              did == render(renderer, cells, k, ends)
          IN  /\ (ends # "completed") => (game_over(cells) /\ ~renderer._cascade_played)
              /\ renderer' = did.renderer
              /\ out' = out \o did.writes
              /\ rcalls' = Append(rcalls,
                     [op |-> "render", cells |-> cells, message |-> "None",
                      cascade |-> IF did.writes[Len(did.writes)].write = CASCADE
                                  THEN ends ELSE "None",
                      raised |-> did.raised])
    /\ UNCHANGED <<pureVars, player>>
    /\ UNCHANGED cascadeVars

ShowError ==
    /\ Len(rcalls) < MaxRendererCalls
    /\ \E message \in Messages :
          LET k == Len(rcalls) + 1
              did == show_error(renderer, message, k)
          IN  /\ renderer' = did.renderer
              /\ out' = out \o did.writes
              /\ rcalls' = Append(rcalls,
                     [op |-> "show_error", cells |-> << >>, message |-> message,
                      cascade |-> "None", raised |-> FALSE])
    /\ UNCHANGED <<pureVars, player>>
    /\ UNCHANGED cascadeVars

NextRenderer ==
    \/ Render
    \/ ShowError

SpecRenderer == InitRenderer /\ [][NextRenderer]_vars

----------------------------------------------------------------------------
(* player.py: RichPlayer.get_move, one action per turn of its loop.  The   *)
(* renderer has shown the game, as the game loop does before it asks for a *)
(* move, or has shown nothing yet.                                         *)

MaxPrompts == 3

(* what the user answers to a prompt: coordinates of both forms and cases, *)
(* one with blanks around it, the empty answer, answers that are no        *)
(* coordinates, and answers that go on after a coordinate                  *)
PlayerInputs ==
    { <<"a", "1">>, <<"1", "b">>, <<"C", "3">>, <<" ", "b", "2", "\n">>,
      << >>, <<"x">>, <<"a", "4">>, <<"a", " ", "1">>,
      <<"a", "1", "x">>, <<"3", "c", "0">> }

InvalidMove == "InvalidMove"

(* line 79: game_state.make_move_to(index) of the rules engine: the move   *)
(* of the player whose turn it is, InvalidMove on a cell that is taken     *)
make_move_to(cells, cell_index) ==
    IF CellAt(cells, cell_index) # EMPTY
    THEN [raised |-> InvalidMove, kind |-> "None", cell_index |-> cell_index,
          mark |-> "None", after_state |-> cells]
    ELSE [raised |-> "None", kind |-> "Move", cell_index |-> cell_index,
          mark |-> current_mark(cells),
          after_state |-> [i \in 1..9 |-> IF i = cell_index + 1
                                          THEN current_mark(cells) ELSE cells[i]]]

(* get_move returned None *)
NoneMove(cells) ==
    [raised |-> "None", kind |-> "None", cell_index |-> -1, mark |-> "None",
     after_state |-> cells]

(* the renderer the player is given: new, or after render(cells) *)
RendererShown(cells) == render(NewRendererFields, cells, 1, "completed")

InitPlayer ==
    /\ NoCascade
    /\ NoPure
    /\ \E cells \in GameStates :
          /\ player = [game_state |-> cells, pc |-> "call", prompts |-> 0,
                       inputs |-> << >>, move |-> NoneMove(cells)]
          /\ \/ NewRenderer
             \/ /\ renderer = RendererShown(cells).renderer
                /\ out = RendererShown(cells).writes
                /\ rcalls = << [op |-> "render", cells |-> cells, message |-> "None",
                                cascade |-> IF game_over(cells) THEN "completed"
                                            ELSE "None",
                                raised |-> FALSE] >>

(* lines 64 and 83: the game is over, get_move returns None *)
GetMoveOver ==
    /\ player.pc = "call"
    /\ game_over(player.game_state)
    /\ player' = [player EXCEPT !.pc = "done", !.move = NoneMove(player.game_state)]
    /\ UNCHANGED rendererVars
    /\ UNCHANGED pureVars
    /\ UNCHANGED cascadeVars

(* the call show_error(message) get_move makes on its renderer *)
PlayerShowsError(message) ==
    LET k == Len(rcalls) + 1
        did == show_error(renderer, message, k)
    IN  /\ renderer' = did.renderer
        /\ out' = out \o did.writes
        /\ rcalls' = Append(rcalls,
               [op |-> "show_error", cells |-> << >>, message |-> message,
                cascade |-> "None", raised |-> FALSE])

(* lines 64-81: one turn of the loop: the prompt, the answer, and either   *)
(* an error shown and the next turn, or the move returned                  *)
GetMoveTurn ==
    /\ player.pc \in {"call", "loop"}
    /\ ~game_over(player.game_state)
    /\ player.prompts < MaxPrompts
    /\ \E user_input \in PlayerInputs :
          LET got == grid_to_index(user_input)
              asked == [player EXCEPT !.prompts = @ + 1,
                                      !.inputs = Append(@, user_input)]
          IN  IF got.raised = ValueError
              THEN /\ PlayerShowsError(
                          "Please provide coordinates in the form of A1 or 1A")
                   /\ player' = [asked EXCEPT !.pc = "loop"]
              ELSE LET made == make_move_to(player.game_state, got.value)
                   IN  IF made.raised = InvalidMove
                       THEN /\ PlayerShowsError("That cell is already occupied.")
                            /\ player' = [asked EXCEPT !.pc = "loop"]
                       ELSE /\ player' = [asked EXCEPT !.pc = "done", !.move = made]
                            /\ UNCHANGED rendererVars
    /\ UNCHANGED pureVars
    /\ UNCHANGED cascadeVars

NextPlayer ==
    \/ GetMoveOver
    \/ GetMoveTurn

SpecPlayer == InitPlayer /\ [][NextPlayer]_vars

----------------------------------------------------------------------------
(* Properties of update() *)

Indices == DOMAIN particles

(* an update() call has just been made *)
Updated == calls' = calls + 1

(* C1: a particle created frozen keeps the x, y and velocity it was        *)
(* created with through any number of update() calls.                      *)
C1_FrozenUnchanged ==
    \A i \in Indices :
        created[i].frozen =>
            /\ particles[i].x = created[i].x
            /\ particles[i].y = created[i].y
            /\ particles[i].velocity = created[i].velocity

(* a frozen particle in a column of the display, after a call in which     *)
(* another particle landed in that same column                             *)
C1_Witness ==
    /\ calls > 0
    /\ \E i \in Indices, j \in Indices :
          /\ created[i].frozen
          /\ particles[i].x \in DOMAIN floor
          /\ ~created[j].frozen
          /\ particles[j].velocity = 0
          /\ particles[j].x = particles[i].x

(* C2: a non-frozen particle whose velocity is 0 has velocity 0 after      *)
(* every later update() call.                                              *)
C2_NoReenergize ==
    [][\A i \in Indices :
          ((~particles[i].frozen) /\ particles[i].velocity = 0)
              => particles'[i].velocity = 0]_vars

(* a particle that landed in an earlier call (the latest call already      *)
(* found its column's floor lowered) and is still at rest                  *)
C2_Witness ==
    /\ calls >= 2
    /\ \E i \in Indices :
          /\ ~particles[i].frozen
          /\ particles[i].velocity = 0
          /\ particles[i].x \in DOMAIN floor
          /\ floor_log[1][particles[i].x] < height
          /\ floor[particles[i].x] = height - 1

(* C3: update() returns False exactly when, in the state it leaves, every  *)
(* non-frozen particle has velocity 0.                                     *)
C3_ReturnIffAtRest ==
    calls > 0 =>
        ((still_moving = FALSE)
            <=> (\A i \in Indices : (~particles[i].frozen) => particles[i].velocity = 0))

(* a call that returned False and in which a particle landed *)
C3_Witness ==
    /\ calls > 0
    /\ still_moving = FALSE
    /\ floor_log[1] # floor

(* C4: no floor entry ever increases, and every floor entry stays within   *)
(* 0..height.                                                              *)
C4_FloorBounded ==
    [][\A c \in DOMAIN floor :
          /\ 0 <= floor[c] /\ floor[c] <= height
          /\ floor'[c] <= floor[c]
          /\ 0 <= floor'[c] /\ floor'[c] <= height']_vars

CeilDiv(a, b) == (a + b - 1) \div b

(* the collection of the end-to-end case: one non-frozen particle created  *)
(* at column 0, row 0                                                      *)
SingleAtOrigin ==
    /\ Len(created) = 1
    /\ created[1].x = 0 /\ created[1].y = 0
    /\ ~created[1].frozen

(* ceil((H-1)/v) *)
FallCalls == CeilDiv((height - 1) * Den, created[1].velocity)

SlidesOnce == created[1].spin = 1 /\ width >= 2 /\ height >= 2

RestCalls == FallCalls + (IF SlidesOnce THEN 1 ELSE 0)

FloorMet(fl, x, h) == IF x \in DOMAIN fl THEN fl[x] ELSE h
Moving(p) == (~p.frozen) /\ p.velocity # 0
AtFloor(p, fl, h) == p.y + p.velocity >= (FloorMet(fl, p.x, h) - 1) * Den
Headroom(p, fl, w) ==
    /\ 0 <= p.x + p.spin /\ p.x + p.spin < w
    /\ fl[p.x + p.spin] > (p.y \div Den) + 1

(* C6: a moving particle that reaches the floor slides iff the column      *)
(* x+spin is within [0, width) and floor[x+spin] > floor(y)+1; a slide     *)
(* sets x to x+spin and y to y+velocity and changes neither the velocity   *)
(* nor the floor; otherwise the particle lands.                            *)
C6_SlideRule ==
    [][Updated =>
         \A i \in Indices :
            LET p == particles[i]
                q == particles'[i]
                fl == floor_log'[i]
                fl2 == floor_log'[i + 1]
            IN  (Moving(p) /\ AtFloor(p, fl, height)) =>
                    IF Headroom(p, fl, width)
                    THEN /\ q = [p EXCEPT !.x = p.x + p.spin, !.y = p.y + p.velocity]
                         /\ fl2 = fl
                    ELSE /\ q.velocity = 0
                         /\ q.x = p.x]_vars

(* a particle that has slid into the next column and another that landed   *)
(* in the column it was created in although it had reached the floor with  *)
(* a side column inside the display                                        *)
C6_Witness ==
    /\ \E i \in Indices :
          /\ ~particles[i].frozen
          /\ particles[i].x = created[i].x + created[i].spin
    /\ \E j \in Indices :
          /\ ~particles[j].frozen
          /\ particles[j].velocity = 0
          /\ particles[j].x = created[j].x
          /\ (created[j].x + created[j].spin) \in DOMAIN floor

(* C7: a moving particle that reaches the floor and may not slide gets     *)
(* y = floor[x]-1 and velocity 0, and floor[x] alone goes down by 1; a     *)
(* moving particle that does not reach the floor only has y increased by   *)
(* its velocity and changes no floor entry.                                *)
C7_LandAndFall ==
    [][Updated =>
         \A i \in Indices :
            LET p == particles[i]
                q == particles'[i]
                fl == floor_log'[i]
                fl2 == floor_log'[i + 1]
            IN  Moving(p) =>
                    IF AtFloor(p, fl, height)
                    THEN Headroom(p, fl, width) \/
                            /\ q = [p EXCEPT !.y = (FloorMet(fl, p.x, height) - 1) * Den,
                                             !.velocity = 0]
                            /\ fl2 = [c \in DOMAIN fl |->
                                        IF c = p.x THEN fl[c] - 1 ELSE fl[c]]
                    ELSE /\ q = [p EXCEPT !.y = p.y + p.velocity]
                         /\ fl2 = fl]_vars

(* a display of two or more columns in which one particle has landed and   *)
(* another is still falling                                                *)
C7_Witness ==
    /\ width >= 2
    /\ \E i \in Indices, j \in Indices :
          /\ ~particles[i].frozen
          /\ particles[i].velocity = 0
          /\ particles[i].x \in DOMAIN floor
          /\ floor[particles[i].x] < height
          /\ Moving(particles[j])
          /\ particles[j].y > created[j].y

----------------------------------------------------------------------------
(* Properties of run() *)

AtRest == \A i \in Indices : (~particles[i].frozen) => particles[i].velocity = 0

(* run() passed the size check, entered the input mode, and neither a key  *)
(* nor an exception ended it                                               *)
EndedByItself == pc = "returned" /\ tally.enter = 1 /\ key # " " /\ ~exc

(* C8: every run() ends; a run that is neither cancelled nor failed ends   *)
(* after an update() call that returned False, with every non-frozen       *)
(* particle landed.                                                        *)
C8_RunEnds ==
    <>(/\ pc \in Ended
       /\ EndedByItself => (calls > 0 /\ still_moving = FALSE /\ AtRest))

(* a run that ended by itself with no key typed, after more than one       *)
(* frame, a particle having landed                                         *)
C8_Witness ==
    /\ EndedByItself
    /\ tally.typed = 0
    /\ frame_count > 1
    /\ \E c \in DOMAIN floor : floor[c] < height

(* C9: when run() has written HIDE_CURSOR, then at its end, by             *)
(* convergence, by Space or by an exception, SHOW_CURSOR has been written  *)
(* and, if the input mode was entered, the terminal has the settings it    *)
(* had before the run.                                                     *)
C9_Teardown ==
    (pc \in Ended /\ tally.hide > 0) =>
        /\ cursor = "shown"
        /\ tally.show = 1
        /\ tally.enter > 0 => term = term0

(* an exception has left run() after a frame was written, on a terminal    *)
(* whose settings the input mode had changed                               *)
C9_Witness ==
    /\ pc = "raised"
    /\ tally.enter = 1
    /\ tally.frames > 0
    /\ SetCbreak(term0) # term0
    /\ term = term0

(* the input mode is held: entered and not yet released *)
ModeHeld == tally.enter = 1 /\ tally.restore = 0

(* C10: a run enters the input mode at most once, and once when it reaches *)
(* the loop; it has restored the saved settings exactly once when it ends, *)
(* however it ends; calling _restore again leaves the terminal in the      *)
(* settings saved; the exit fallback is registered exactly while the mode  *)
(* is held.                                                                *)
C10_EnterOnceRestoreOnce ==
    /\ tally.enter <= 1
    /\ tally.restore <= tally.enter
    /\ pc \in LoopPcs \cup {"exit"} => ModeHeld
    /\ pc \in Ended => tally.restore = tally.enter
    /\ kb.atexit <=> ModeHeld
    /\ (pc \in Ended /\ tally.enter = 1) =>
          /\ term = term0
          /\ Restore(kb, term) = term0
          /\ Restore(kb, Restore(kb, term)) = term0

(* a cancelled run at its end, the mode entered once and released once *)
C10_Witness ==
    /\ pc = "returned"
    /\ key = " "
    /\ tally.enter = 1
    /\ tally.restore = 1
    /\ SetCbreak(term0) # term0

----------------------------------------------------------------------------
(* Properties of the loop of run() *)

(* how often a token occurs in the terminal's log *)
Occurrences(token) == Cardinality({ i \in DOMAIN tty : tty[i] = token })

(* the poll of this iteration read Space *)
Cancelled == key = " "

(* C11: every iteration polls the keyboard before anything else, and an    *)
(* iteration whose poll read Space makes no update() call, does not count  *)
(* a frame, writes no frame and takes no settle pause: it goes to the      *)
(* teardown, and the run returns.  So after n whole iterations and the     *)
(* cancelling poll there are n update() calls, n frames and n + 1 polls.   *)
C11_CancelFirst ==
    /\ pc \in {"update", "count", "home", "print"} =>
          (~Cancelled /\ tally.polls = tally.sleeps + 1)
    /\ Cancelled =>
          /\ pc \in {"exit", "finally", "returned"}
          /\ ~exc
          /\ tally.polls = tally.sleeps + 1
          /\ calls = tally.sleeps
          /\ frame_count = tally.sleeps
          /\ tally.frames = tally.sleeps
          /\ Occurrences(FRAME) = tally.sleeps
          /\ tally.settles = 0

(* a run cancelled in mid-fall has returned *)
C11_Witness ==
    /\ Cancelled
    /\ pc = "returned"
    /\ calls > 0
    /\ \E i \in Indices : particles[i].velocity > 0

(* the last thing the terminal received *)
LastToken == IF tty = << >> THEN "" ELSE tty[Len(tty)]

(* where an iteration stands, n whole iterations having gone before it *)
IterationOrder ==
    LET n == tally.sleeps
    IN  /\ pc = "poll" =>
            calls = n /\ frame_count = n /\ tally.frames = n
        /\ pc = "update" =>
            calls = n /\ frame_count = n /\ tally.frames = n
        /\ pc = "count" =>
            calls = n + 1 /\ frame_count = n /\ tally.frames = n
        /\ pc = "home" =>
            /\ calls = n + 1 /\ frame_count = n + 1 /\ tally.frames = n
            /\ Occurrences(CURSOR_HOME) = n
        /\ pc = "print" =>
            /\ calls = n + 1 /\ frame_count = n + 1 /\ tally.frames = n
            /\ Occurrences(CURSOR_HOME) = n + 1
            /\ LastToken = CURSOR_HOME
        /\ pc \in {"settle", "sleep"} =>
            /\ calls = n + 1 /\ frame_count = n + 1 /\ tally.frames = n + 1
            /\ LastToken = FRAME
            /\ rendered = [done |-> TRUE, ps |-> particles, n |-> frame_count]
        /\ pc = "settle" => (~still_moving /\ AtRest)
        /\ pc = "sleep" => still_moving
        /\ tally.settles > 0 =>
            /\ pc \notin LoopPcs
            /\ tally.settles = 1
            /\ tally.polls = tally.frames
            /\ rendered.ps = particles

(* C12: an iteration that is not cancelled calls update(), then counts the *)
(* frame, then writes cursor-home, then writes the frame.  When update()   *)
(* returned False that frame is made from the particles at rest, the run   *)
(* takes the settle pause and leaves the loop without another poll; when   *)
(* it returned True the run sleeps a frame period and polls again.         *)
C12_IterationOrder ==
    [][ /\ IterationOrder
        /\ IterationOrder'
        /\ (pc = "update" /\ pc' # pc /\ ~exc') => (pc' = "count" /\ Updated)
        /\ (pc = "count" /\ pc' # pc /\ ~exc') => pc' = "home"
        /\ (pc = "home" /\ pc' # pc /\ ~exc') => pc' = "print"
        /\ (pc = "print" /\ pc' # pc /\ ~exc') =>
              pc' = (IF still_moving THEN "sleep" ELSE "settle")
        /\ (pc = "settle" /\ pc' # pc) => (pc' = "exit" /\ tally'.polls = tally.polls)
        /\ (pc = "sleep" /\ pc' # pc /\ ~exc') => pc' = "poll"
      ]_vars

(* a run of several iterations in its settle pause, the last frame made    *)
(* from the particles at rest                                              *)
C12_Witness ==
    /\ pc = "settle"
    /\ tally.sleeps > 1
    /\ rendered.ps = particles
    /\ AtRest
    /\ \E i \in Indices : ~particles[i].frozen

(* C13: on a display narrower than MIN_WIDTH or shorter than MIN_HEIGHT    *)
(* run() returns at once: it writes nothing to the terminal (no hide, no   *)
(* frame, no show), does not enter the input mode or read a key, and       *)
(* leaves the particles, the floor and the frame counter as they were.     *)
C13_TooSmallNoOp ==
    (width < MIN_WIDTH \/ height < MIN_HEIGHT) =>
        /\ pc \in {"idle", "returned"}
        /\ ~exc
        /\ tty = << >>
        /\ cursor = "shown"
        /\ tally.hide = 0 /\ tally.show = 0 /\ tally.frames = 0
        /\ tally.enter = 0 /\ tally.restore = 0 /\ tally.polls = 0
        /\ term = term0
        /\ kb = NewKb
        /\ Len(stdin) = tally.typed
        /\ particles = created
        /\ floor = InitFloor(width, height)
        /\ frame_count = 0
        /\ calls = 0
        /\ rendered = NoFrame

(* run() has returned on a display one column too narrow, a key typed and  *)
(* left unread, particles still able to fall                               *)
C13_Witness ==
    /\ pc = "returned"
    /\ width = MIN_WIDTH - 1
    /\ height = MIN_HEIGHT
    /\ stdin # << >>
    /\ \E i \in Indices : particles[i].velocity > 0

(* entering the input mode failed: the cursor was hidden, __enter__ raised *)
EnterFailed == tally.hide = 1 /\ tally.enter = 0 /\ pc \in {"finally"} \cup Ended

(* what of C14 run() itself does on that failure *)
EnterFailureInsideRun ==
    EnterFailed =>
        /\ calls = 0 /\ frame_count = 0 /\ tally.polls = 0
        /\ tally.frames = 0 /\ Occurrences(FRAME) = 0
        /\ pc \in Ended => (cursor = "shown" /\ LastToken = SHOW_CURSOR)

(* C14: when entering the input mode fails the animation is off: no        *)
(* update() call, no frame, the cursor shown again, and render(), the      *)
(* caller, completes without the failure propagating out of it.            *)
C14_EnterFailureContained ==
    /\ EnterFailureInsideRun
    /\ EnterFailed => caller # "raised"

(* what of C15 the terminal's log shows: cursor-home right before every    *)
(* frame, and no full-screen clear                                         *)
HomeBeforeEveryFrame ==
    /\ \A i \in DOMAIN tty : tty[i] = FRAME => (i > 1 /\ tty[i - 1] = CURSOR_HOME)
    /\ Occurrences(CLEAR_SCREEN) = 0

(* C15: every frame write is immediately preceded by cursor-to-top-left,   *)
(* no full-screen clear is written during a run, and every frame write is  *)
(* followed by a clear-to-end-of-screen: once run() has written anything   *)
(* after a frame, or has ended, the frame has the clear right behind it.   *)
C15_HomeFrameClear ==
    /\ HomeBeforeEveryFrame
    /\ \A i \in DOMAIN tty :
          (tty[i] = FRAME /\ (i < Len(tty) \/ pc \in Ended)) =>
              (i < Len(tty) /\ tty[i + 1] = CLEAR_TO_END)

(* C16: a run that passes the size check writes exactly one hide-cursor,   *)
(* first of all (before any frame and before the input mode is entered),   *)
(* and exactly one show-cursor, last of all (after the last frame and      *)
(* after the input mode is released); every frame lies between the two.    *)
C16_CursorBracket ==
    LET passed == width >= MIN_WIDTH /\ height >= MIN_HEIGHT /\ pc # "idle"
    IN  /\ passed =>
              /\ Occurrences(HIDE_CURSOR) = 1
              /\ tty[1] = HIDE_CURSOR
        /\ (passed /\ pc \in Ended) =>
              /\ Occurrences(SHOW_CURSOR) = 1
              /\ LastToken = SHOW_CURSOR
              /\ tally.restore = tally.enter
        /\ \A i \in DOMAIN tty :
              /\ tty[i] = SHOW_CURSOR => (i = Len(tty) /\ pc \in Ended /\ ~ModeHeld)
              /\ tty[i] \in {FRAME, CBREAK, RESTORE, CURSOR_HOME} =>
                    /\ \E h \in 1..(i - 1) : tty[h] = HIDE_CURSOR
                    /\ \A j \in 1..(i - 1) : tty[j] # SHOW_CURSOR

(* a run that wrote frames and then failed in the loop has ended, the      *)
(* frames and the input mode inside the bracket                            *)
C16_Witness ==
    /\ pc = "raised"
    /\ tally.frames > 1
    /\ tally.restore = 1
    /\ tty[1] = HIDE_CURSOR
    /\ LastToken = SHOW_CURSOR

----------------------------------------------------------------------------
(* Properties of render_frame() *)

(* the frame render_frame() returned *)
Frame == render_frame(rendered.ps, width, height, rendered.n)

(* the cells of the buffer *)
Buffer == (0..(width - 1)) \X (0..(height - 1))

(* the cell a particle is at: its column and its truncated row *)
CellOf(p) == <<p.x, Trunc(p.y)>>

(* the segment of the returned text that shows a cell *)
Shown(text, cell) == text[cell[2] * (width + 1) + cell[1] + 1]

(* the particles the frame was made from that are at a cell *)
ParticlesAt(cell) == { i \in DOMAIN rendered.ps : CellOf(rendered.ps[i]) = cell }

FrameWellFormed ==
    LET writes == Frame.writes
        text == Frame.text
    IN  /\ \A k \in DOMAIN writes : writes[k] \in Buffer
        /\ Len(writes) =
              Cardinality({ i \in DOMAIN rendered.ps : CellOf(rendered.ps[i]) \in Buffer })
        /\ Len(text) = height * width + (height - 1)
        /\ \A k \in DOMAIN text : (text[k].char = "\n") <=> (k % (width + 1) = 0)

(* C17: render_frame() writes to no cell outside the width x height        *)
(* buffer: a particle is drawn only if its column and truncated row are    *)
(* inside, any other is skipped; the text returned has exactly height rows *)
(* of exactly width glyphs, one newline between rows and none after the    *)
(* last; the call leaves particles, floor and frame counter unchanged.     *)
C17_RenderInBounds ==
    /\ [](rendered.done => FrameWellFormed)
    /\ [][ (rendered' # rendered /\ rendered'.done) =>
              UNCHANGED <<particles, floor, frame_count>> ]_vars

(* a frame made of one particle inside the buffer and one above it *)
C17_Witness ==
    /\ rendered.done
    /\ \E i \in DOMAIN rendered.ps : CellOf(rendered.ps[i]) \in Buffer
    /\ \E i \in DOMAIN rendered.ps : Trunc(rendered.ps[i].y) < 0
    /\ Len(Frame.writes) = 1

(* C18: every cell of the frame shows the glyph and the style of the       *)
(* particle of highest creation index at that cell (column, truncated      *)
(* row), and a blank with no style when no particle is there.              *)
C18_LastWriteWins ==
    rendered.done =>
        LET text == Frame.text
        IN  \A cell \in Buffer :
                IF ParticlesAt(cell) = {}
                THEN Shown(text, cell) = [char |-> " ", style |-> NoStyle]
                ELSE LET top == CHOOSE i \in ParticlesAt(cell) :
                                    \A j \in ParticlesAt(cell) : j <= i
                     IN  /\ Shown(text, cell).char = rendered.ps[top].char
                         /\ Shown(text, cell).style =
                                StyleShown(rendered.ps[top], rendered.n)

(* a frame with two particles of different styles at one cell *)
C18_Witness ==
    /\ rendered.done
    /\ \E cell \in Buffer :
          \E i, j \in ParticlesAt(cell) :
              i < j /\ rendered.ps[i].style # rendered.ps[j].style

(* the styles of the model that mention red, and blue, in any case *)
RedStyles == {"bold red reverse", "BOLD RED", "blue on red"}
BlueStyles == {"bold blue reverse", "bold BLUE", "blue on red"}

Ramp(colors) == { colors[k] : k \in DOMAIN colors }

(* C19: a frozen particle whose style mentions red (in any case) is shown  *)
(* in one of the 7 entries of the red ramp; otherwise one whose style      *)
(* mentions blue in one of the 7 entries of the blue ramp; the ramp index  *)
(* is within 0..6; a frozen particle with another style or none keeps the  *)
(* stored style, and a non-frozen particle is always shown in its stored   *)
(* style.                                                                  *)
C19_PulseStyle ==
    rendered.done =>
        /\ pulse_index(rendered.n) \in 0..6
        /\ Len(PULSE_COLORS_RED) = 7 /\ Len(PULSE_COLORS_BLUE) = 7
        /\ LET text == Frame.text
           IN  \A i \in DOMAIN rendered.ps :
                 LET p == rendered.ps[i]
                     cell == CellOf(p)
                 IN  (cell \in Buffer /\ \A j \in ParticlesAt(cell) : j <= i) =>
                         IF p.frozen /\ p.style \in RedStyles
                         THEN Shown(text, cell).style \in Ramp(PULSE_COLORS_RED)
                         ELSE IF p.frozen /\ p.style \in BlueStyles
                         THEN Shown(text, cell).style \in Ramp(PULSE_COLORS_BLUE)
                         ELSE Shown(text, cell).style = p.style

(* a frame, some frames into the pulse, that shows a frozen particle whose *)
(* style names red in capitals                                             *)
C19_Witness ==
    /\ rendered.done
    /\ rendered.n > 2
    /\ pulse_index(rendered.n) # pulse_index(0)
    /\ \E i \in DOMAIN rendered.ps :
          /\ rendered.ps[i].frozen
          /\ rendered.ps[i].style = "BOLD RED"
          /\ CellOf(rendered.ps[i]) \in Buffer
          /\ Shown(Frame.text, CellOf(rendered.ps[i])).style =
                PULSE_COLORS_RED[pulse_index(rendered.n) + 1]

----------------------------------------------------------------------------
(* Properties of the particle factory *)

(* the scene positions that hold a glyph: neither a space nor a newline *)
SceneGlyphs ==
    LET board_lines == BoardLines(arg_scene)
    IN  { pos \in DOMAIN board_lines : board_lines[pos] \notin {" ", "\n"} }

(* C20: the factory makes exactly one particle for every scene position    *)
(* whose glyph is neither a space nor a newline, in row-major order, with  *)
(* x the column and y the row; the particle is frozen exactly when its     *)
(* coordinate is in the frozen area; a frozen particle has velocity 0 and  *)
(* spin 0, any other a velocity above 0 and a spin of -1 or +1.            *)
C20_Factory ==
    LET board_lines == BoardLines(arg_scene)
    IN  /\ Len(created) = Cardinality(SceneGlyphs)
        /\ \A pos \in SceneGlyphs :
              \E i \in DOMAIN created :
                  /\ created[i].x = pos[1]
                  /\ created[i].y = pos[2] * Den
                  /\ created[i].char = board_lines[pos]
        /\ \A i, j \in DOMAIN created :
              i < j => \/ created[i].y < created[j].y
                       \/ (created[i].y = created[j].y /\ created[i].x < created[j].x)
        /\ \A i \in DOMAIN created :
              LET p == created[i]
              IN  /\ <<p.x, p.y \div Den>> \in SceneGlyphs
                  /\ p.y % Den = 0
                  /\ p.frozen <=> is_in_frozen_area(p.x, p.y \div Den, arg_frozen)
                  /\ p.frozen => (p.velocity = 0 /\ p.spin = 0)
                  /\ (~p.frozen) => (p.velocity > 0 /\ p.spin \in {-1, 1})

(* a scene of two glyphs with blanks around them, the second one frozen *)
C20_Witness ==
    /\ Len(created) = 2
    /\ created[1].y < created[2].y
    /\ \E i \in DOMAIN created : created[i].frozen
    /\ \E i \in DOMAIN created : ~created[i].frozen
    /\ \E pos \in DOMAIN BoardLines(arg_scene) : BoardLines(arg_scene)[pos] = " "
    /\ calls > 0

----------------------------------------------------------------------------
(* More properties of update() *)

(* the particle's column is outside the floor array *)
Outside(p) == p.x \notin DOMAIN floor

(* C24 as stated: a non-frozen particle in a column outside the floor      *)
(* array is never landed: its velocity stays nonzero however often         *)
(* update() is called, and update() keeps returning True.                  *)
C24_OutsideNeverLands ==
    \A i \in Indices :
        (Outside(particles[i]) /\ ~particles[i].frozen) =>
            /\ particles[i].velocity # 0
            /\ calls > 0 => still_moving

(* C24 amended: a moving particle in a column outside the floor array has  *)
(* the display height for its floor: short of row height-1 it falls; on    *)
(* reaching it, it slides if the column beside it is in the array with     *)
(* room, and otherwise lands at row height-1 with velocity 0; no floor     *)
(* entry changes; and update() returns False once all particles rest.      *)
C24_OutsideLandsAtBottom ==
    [][Updated =>
         /\ \A i \in Indices :
               LET p == particles[i]
                   q == particles'[i]
               IN  (Outside(p) /\ Moving(p)) =>
                     /\ floor_log'[i + 1] = floor_log'[i]
                     /\ IF p.y + p.velocity < (height - 1) * Den
                        THEN q = [p EXCEPT !.y = p.y + p.velocity]
                        ELSE IF Headroom(p, floor_log'[i], width)
                        THEN q = [p EXCEPT !.x = p.x + p.spin, !.y = p.y + p.velocity]
                        ELSE q = [p EXCEPT !.y = (height - 1) * Den, !.velocity = 0]
         /\ (\A i \in Indices : ~Moving(particles[i])) => ~still_moving'
    ]_vars

(* a particle outside the floor array at rest on the bottom row, the floor *)
(* as it was made, update() having returned False                          *)
C24_Witness ==
    /\ calls > 1
    /\ ~still_moving
    /\ floor = InitFloor(width, height)
    /\ \E i \in Indices :
          /\ Outside(particles[i])
          /\ ~particles[i].frozen
          /\ particles[i].velocity = 0
          /\ particles[i].y = (height - 1) * Den
          /\ particles[i].y > created[i].y

(* C28: update() changes only x, y and velocity of non-frozen particles    *)
(* with nonzero velocity, and floor entries: the particle list keeps its   *)
(* length and order, and no particle's char, style, frozen flag or spin    *)
(* changes; width, height and frame counter stay too.                      *)
C28_UpdateFrame ==
    [][Updated =>
         /\ DOMAIN particles' = DOMAIN particles
         /\ \A i \in Indices :
               LET p == particles[i]
                   q == particles'[i]
               IN  /\ q.char = p.char /\ q.style = p.style
                   /\ q.frozen = p.frozen /\ q.spin = p.spin
                   /\ (p.frozen \/ p.velocity = 0) => q = p
         /\ DOMAIN floor' = DOMAIN floor
         /\ UNCHANGED <<width, height, frame_count>>
    ]_vars

(* two particles, one slid sideways and landed, the other never moved *)
C28_Witness ==
    /\ calls > 1
    /\ \E i, j \in Indices :
          /\ particles[i].x # created[i].x
          /\ particles[i].velocity = 0
          /\ particles[i].spin = created[i].spin
          /\ particles[j] = created[j]

(* C30: when every particle's column is within [0, width) at the start it  *)
(* is within [0, width) after any number of update() calls.                *)
C30_ColumnsKept ==
    (\A i \in DOMAIN created : 0 <= created[i].x /\ created[i].x < width) =>
        \A i \in Indices : 0 <= particles[i].x /\ particles[i].x < width

(* a particle that slid to the edge column, its spin pointing off the      *)
(* display, and landed there                                               *)
C30_Witness ==
    /\ \A i \in DOMAIN created : 0 <= created[i].x /\ created[i].x < width
    /\ \E i \in Indices :
          /\ particles[i].x # created[i].x
          /\ particles[i].velocity = 0
          /\ ~particles[i].frozen
          /\ (particles[i].x + particles[i].spin < 0
                \/ particles[i].x + particles[i].spin >= width)

(* ---------------------------------------------------------------------- *)
(* The keyboard poll of the frame loop                                     *)
(* ---------------------------------------------------------------------- *)

(* the characters typed and not yet returned by key_pressed(), in order *)
Pending == inbuf \o stdin

(* C29: each iteration of the frame loop takes at most one pending         *)
(* character and takes none, at once, when none is pending; a character    *)
(* other than Space is dropped and the animation goes on untouched; Space  *)
(* ends the loop at the poll that finds it at the head of the pending      *)
(* characters, so a Space behind k characters ends it at poll k + 1.       *)
C29_OnePendingKeyPerPoll ==
    [][ (pc = "poll" /\ pc' # "poll" /\ ~exc') =>
          /\ UNCHANGED <<particles, floor, frame_count, still_moving>>
          /\ IF Pending = << >>
             THEN key' = NoKey /\ Pending' = Pending /\ pc' = "update"
             ELSE /\ key' = Head(Pending)
                  /\ Pending' = Tail(Pending)
                  /\ pc' = IF Head(Pending) = " " THEN "exit" ELSE "update"
    ]_vars

(* ---------------------------------------------------------------------- *)
(* Properties of grid_to_index                                             *)
(* ---------------------------------------------------------------------- *)

(* the number of a column letter, whatever its case *)
ColumnNumber ==
    ("a" :> 0) @@ ("A" :> 0) @@ ("b" :> 1) @@ ("B" :> 1) @@ ("c" :> 2) @@ ("C" :> 2)
RowNumber == ("1" :> 1) @@ ("2" :> 2) @@ ("3" :> 3)

(* C23: grid_to_index strips the string and then gives                     *)
(* 3 * (row - 1) + column, a number in 0..8, when what is left is exactly  *)
(* one column letter and one row digit in either order; for every other    *)
(* string, one that only starts with a coordinate included, it raises      *)
(* ValueError.                                                             *)
C23_ExactCoordinate ==
    index.called =>
        LET g == strip(grid)
        IN  IF Len(g) = 2 /\ g[1] \in DOMAIN ColumnNumber /\ g[2] \in DOMAIN RowNumber
            THEN index = Returned(3 * (RowNumber[g[2]] - 1) + ColumnNumber[g[1]])
                    /\ index.value \in 0..8
            ELSE IF Len(g) = 2 /\ g[1] \in DOMAIN RowNumber
                               /\ g[2] \in DOMAIN ColumnNumber
            THEN index = Returned(3 * (RowNumber[g[1]] - 1) + ColumnNumber[g[2]])
                    /\ index.value \in 0..8
            ELSE index = Raised(ValueError)

(* ---------------------------------------------------------------------- *)
(* Properties of is_in_frozen_area                                         *)
(* ---------------------------------------------------------------------- *)

(* the rectangle of cell i: columns 4 + 18 (i mod 3) up to 21 + 18 (i mod  *)
(* 3), rows 2 + 8 (i div 3) up to 9 + 8 (i div 3), the upper ends excluded *)
InRectangle(x, y, i) ==
    /\ 4 + 18 * (i % 3) <= x /\ x < 21 + 18 * (i % 3)
    /\ 2 + 8 * (i \div 3) <= y /\ y < 9 + 8 * (i \div 3)

(* C21: is_in_frozen_area(x, y, F) is true exactly when (x, y) is in the   *)
(* rectangle of a cell of F; no position is in two rectangles; and the     *)
(* rectangle of cell i is the art of cell i in the scene of                *)
(* _build_board_for_animation, so no header, label, border or status       *)
(* position is ever frozen.                                                *)
C21_FrozenArea ==
    inside.called =>
        LET here == SceneAt(probe.cells, probe.x, probe.y)
        IN  /\ inside.value <=>
                  \E i \in probe.frozen_cells : InRectangle(probe.x, probe.y, i)
            /\ \A i, j \in 0..8 :
                  (InRectangle(probe.x, probe.y, i) /\ InRectangle(probe.x, probe.y, j))
                      => i = j
            /\ \A i \in 0..8 :
                  InRectangle(probe.x, probe.y, i) <=> (here.part = "art" /\ here.cell = i)
            /\ inside.value => (here.part = "art" /\ here.cell \in probe.frozen_cells)

(* the last column of the last line of the art of cell 8, frozen with the  *)
(* diagonal 0, 4, 8                                                        *)
C21_Witness ==
    /\ inside.called
    /\ inside.value
    /\ probe.frozen_cells = {0, 4, 8}
    /\ probe.x = 56
    /\ probe.y = 24
    /\ SceneAt(probe.cells, probe.x + 1, probe.y).part = "border"
    /\ SceneAt(probe.cells, probe.x, probe.y + 1).part = "border"

(* ---------------------------------------------------------------------- *)
(* Properties of the renderer                                              *)
(* ---------------------------------------------------------------------- *)

(* the places in `out` where this was written *)
Written(token) == { i \in DOMAIN out : out[i].write = token }

(* what call number k wrote, in order, the animation left out *)
TokensOf(k) ==
    LET mine == SelectSeq(out, LAMBDA e : e.call = k /\ e.write # CASCADE)
    IN  [i \in DOMAIN mine |-> mine[i].write]

RenderedBefore(k) == \E j \in 1..(k - 1) : rcalls[j].op = "render"

Reversed == {"bold red reverse", "bold blue reverse"}

(* C22: the art lines of a cell are printed in a reverse style exactly     *)
(* when the cell holds a mark and is one of the winning cells of a game    *)
(* that is over; cells of a game in progress or tied, and cells off the    *)
(* winning line, are never reversed.                                       *)
C22_ReverseIffWinning ==
    \A p \in Written(CONTENT) :
        LET cells == out[p].cells
            board == out[p].board
            won == IF winner(cells) # "None" THEN winning_cells(cells) ELSE {}
        IN  \A i \in 0..8, line_idx \in 0..(CELL_HEIGHT - 1) :
                (board[i \div 3][line_idx][i % 3].style \in Reversed)
                    <=> (CellAt(cells, i) \in {CROSS, NAUGHT} /\ i \in won)

(* the board on which 0 has won the middle column was printed: cell 4      *)
(* reversed in blue, cell 0 in plain red                                   *)
C22_Witness ==
    \E p \in Written(CONTENT) :
        /\ out[p].cells = BoardOColumn
        /\ out[p].board[1][0][1].style = "bold blue reverse"
        /\ out[p].board[0][0][0].style = "bold red"

(* C25: over any calls of render() and show_error() on one renderer the    *)
(* animation is started at most once, by a render() of a game that is      *)
(* over, after the board of that game was printed by the same call; the    *)
(* flag is set when it starts, however the run ends, so no later render()  *)
(* starts it again.                                                        *)
C25_CascadeOnce ==
    /\ Cardinality(Written(CASCADE)) <= 1
    /\ \A p \in Written(CASCADE) :
          LET call == rcalls[out[p].call]
          IN  /\ call.op = "render"
              /\ call.cells # << >>
              /\ \/ \A i \in 0..8 : CellAt(call.cells, i) # EMPTY
                 \/ \E k \in DOMAIN WinningLines, mark \in {CROSS, NAUGHT} :
                       \A c \in WinningLines[k] : CellAt(call.cells, c) = mark
              /\ \E q \in 1..(p - 1) :
                    /\ out[q].write = CONTENT
                    /\ out[q].call = out[p].call
                    /\ out[q].cells = call.cells
    /\ (Written(CASCADE) # {}) => renderer._cascade_played

(* the first animation failed, and a later render() of a game that is over *)
(* came back without starting another                                      *)
C25_Witness ==
    \E j, k \in DOMAIN rcalls :
        /\ j < k
        /\ rcalls[j].cascade = "failed"
        /\ rcalls[k].op = "render"
        /\ rcalls[k].cells = BoardTie
        /\ rcalls[k].cascade = "None"

WellFormed(answer) ==
    LET g == strip(answer)
    IN  /\ Len(g) = 2
        /\ \/ g[1] \in DOMAIN ColumnNumber /\ g[2] \in DOMAIN RowNumber
           \/ g[1] \in DOMAIN RowNumber /\ g[2] \in DOMAIN ColumnNumber

(* the cell a well-formed answer names *)
CellNamed(answer) ==
    LET g == strip(answer)
    IN  IF g[1] \in DOMAIN ColumnNumber
        THEN 3 * (RowNumber[g[2]] - 1) + ColumnNumber[g[1]]
        ELSE 3 * (RowNumber[g[1]] - 1) + ColumnNumber[g[2]]

(* a well-formed answer that names a free cell of the game *)
Playable(answer) ==
    WellFormed(answer) /\ CellAt(player.game_state, CellNamed(answer)) = EMPTY

(* the show_error() calls get_move has made *)
ErrorsShown == Cardinality({ k \in DOMAIN rcalls : rcalls[k].op = "show_error" })

(* C27: get_move returns None without a prompt when the game is over;      *)
(* otherwise every answer that is malformed or names a taken cell causes   *)
(* one show_error() and a new prompt, the game state staying as it was,    *)
(* and get_move returns the move of the first answer that is a well-formed *)
(* coordinate of a free cell, and nothing else.                            *)
C27_FirstPlayableAnswer ==
    LET answers == player.inputs
        refused == { i \in DOMAIN answers : ~Playable(answers[i]) }
    IN  /\ game_over(player.game_state) =>
              /\ player.prompts = 0
              /\ ErrorsShown = 0
              /\ player.pc = "done" => player.move.kind = "None"
        /\ ~game_over(player.game_state) =>
              /\ player.prompts = Len(answers)
              /\ ErrorsShown = Cardinality(refused)
              /\ \A i \in DOMAIN answers : i < Len(answers) => i \in refused
              /\ (player.pc = "done") <=>
                    (answers # << >> /\ Playable(answers[Len(answers)]))
              /\ player.pc = "done" =>
                    /\ player.move.kind = "Move"
                    /\ player.move.cell_index = CellNamed(answers[Len(answers)])
                    /\ player.move.after_state # player.game_state

(* the same with `accepted by grid_to_index` in the place of `well-formed` *)
GetMoveByAcceptedAnswer ==
    LET answers == player.inputs
        cell(i) == grid_to_index(answers[i])
        refused == { i \in DOMAIN answers :
                        \/ cell(i).raised = ValueError
                        \/ CellAt(player.game_state, cell(i).value) # EMPTY }
    IN  /\ game_over(player.game_state) =>
              /\ player.prompts = 0
              /\ ErrorsShown = 0
              /\ player.pc = "done" => player.move.kind = "None"
        /\ ~game_over(player.game_state) =>
              /\ player.prompts = Len(answers)
              /\ ErrorsShown = Cardinality(refused)
              /\ \A i \in DOMAIN answers : i < Len(answers) => i \in refused
              /\ (player.pc = "done") <=> (answers # << >> /\ Len(answers) \notin refused)
              /\ player.pc = "done" =>
                    /\ player.move.kind = "Move"
                    /\ player.move.cell_index = cell(Len(answers)).value

(* ---------------------------------------------------------------------- *)
(* The stacks of landed particles                                          *)
(* ---------------------------------------------------------------------- *)

(* the particles that have landed in column c *)
LandedIn(c) ==
    { i \in Indices : /\ ~particles[i].frozen
                      /\ particles[i].velocity = 0
                      /\ particles[i].x = c }

(* C31: after any number of update() calls, in every column c of the       *)
(* display the landed particles (velocity 0, not frozen) are height -      *)
(* floor[c] in number and fill the rows floor[c] .. height - 1, one in     *)
(* each row, so no two landed particles are in the same cell.              *)
C31_Stacks ==
    /\ \A c \in DOMAIN floor :
          LET landed == LandedIn(c)
          IN  /\ Cardinality(landed) = height - floor[c]
              /\ \A i \in landed : particles[i].y % Den = 0
              /\ { particles[i].y \div Den : i \in landed } = floor[c]..(height - 1)
    /\ \A i, j \in Indices :
          ( /\ i # j
            /\ ~particles[i].frozen /\ particles[i].velocity = 0
            /\ ~particles[j].frozen /\ particles[j].velocity = 0
            /\ particles[i].x \in DOMAIN floor
            /\ particles[i].x = particles[j].x )
              => particles[i].y # particles[j].y

(* two particles landed one on the other in a column of the display, the   *)
(* lower one having come from the column beside it                         *)
C31_Witness ==
    \E c \in DOMAIN floor :
        /\ Cardinality(LandedIn(c)) = 2
        /\ floor[c] = height - 2
        /\ \E i \in LandedIn(c) : created[i].x # c

(* ---------------------------------------------------------------------- *)
(* Two animations side by side: one made by __init__, and the same one     *)
(* with the frozen particles taken out of self.particles                   *)
(* ---------------------------------------------------------------------- *)

(* rows of the display below the top row of cell 0 *)
MaxBelow == 1

(* the display shows the first column of cell 0 and its top row *)
TwinWidth == Cell0[1] + 1
TwinHeights == (Cell0[2] + 1)..(Cell0[2] + 1 + MaxBelow)

(* the glyph in the corner of cell 0, and up to MaxParticles glyphs above  *)
(* it and beside it                                                        *)
TwinScenes ==
    { {Cell0} \cup S :
        S \in { T \in SUBSET { <<Cell0[1], 0>>, <<Cell0[1], 1>>, <<Cell0[1] - 1, 1>> } :
                  T # {} /\ Cardinality(T) <= MaxParticles } }

(* the collection with all frozen particles removed *)
WithoutFrozen(ps) == SelectSeq(ps, LAMBDA p : ~p.frozen)

InitTwin ==
    /\ \E h \in TwinHeights, scene \in TwinScenes :
         \E fc \in FrozenFor(scene) :
            \E drawVel \in DrawsVel(scene, fc), drawSpin \in DrawsSpin(scene, fc) :
               Construct(TwinWidth, h, scene, BoardStyles(scene), fc, drawVel, drawSpin)
    /\ RunIdle([echo |-> TRUE, icanon |-> TRUE])
    /\ NoPure
    /\ NewRenderer
    /\ NoPlayer
    /\ shadow = [particles |-> WithoutFrozen(particles), floor |-> floor,
                 still_moving |-> FALSE]

TwinCalls == Den * (Cell0[2] + 1 + MaxBelow) + 2

(* the same update() call is made on both animations *)
UpdateTwin ==
    /\ calls < TwinCalls
    /\ LET r == update(particles, floor, height)
           t == update(shadow.particles, shadow.floor, height)
       IN  /\ particles' = r.particles
           /\ floor' = r.floor
           /\ still_moving' = r.still_moving
           /\ floor_log' = r.log
           /\ shadow' = [particles |-> t.particles, floor |-> t.floor,
                         still_moving |-> t.still_moving]
    /\ calls' = calls + 1
    /\ rendered' = NoFrame
    /\ UNCHANGED <<width, height, frame_count, created, arg_scene, arg_frozen>>
    /\ UNCHANGED <<pc, stdin, inbuf, key, term, term0, kb, cursor, tally, exc,
                   tty, caller>>
    /\ UNCHANGED <<pureVars, rendererVars, player>>

SpecTwin == InitTwin /\ [][UpdateTwin]_vars

(* C32: frozen particles are not obstacles. After any number of update()   *)
(* calls the value update() returned, the floor array and every particle   *)
(* that is not frozen are the same as in the animation that was given the  *)
(* same collection without its frozen particles and the same calls.        *)
C32_FrozenNoObstacle ==
    /\ shadow.still_moving = still_moving
    /\ shadow.floor = floor
    /\ shadow.particles = WithoutFrozen(particles)

(* a falling particle has come down the column of a frozen one to the row  *)
(* of the frozen one or below it                                           *)
C32_Witness ==
    \E i, j \in Indices :
        /\ particles[i].frozen
        /\ ~particles[j].frozen
        /\ created[j].x = particles[i].x
        /\ created[j].y < particles[i].y
        /\ particles[j].x = particles[i].x
        /\ particles[j].y >= particles[i].y
        /\ calls > 0

====
